---- MODULE Spec2Model ----
(***************************************************************************)
(* dragonlex: a lexer generator.  A specification file (one rule per       *)
(* line: REGEX ACTION) is parsed into rules; every rule's regex is parsed  *)
(* into an AST and compiled into a Thompson NFA; the NFAs are combined by  *)
(* a multi-NFA subset construction into one DFA whose accepting states     *)
(* remember the winning rule; the emitted table-driven scanner then        *)
(* tokenizes an input by longest match.                                    *)
(*                                                                         *)
(* Characters are one-character strings, texts are strings, and indices    *)
(* into texts are 0-based as in the source (At(s, i) is chars[i]).         *)
(***************************************************************************)
EXTENDS Integers, Sequences, FiniteSets, TLC

VARIABLES
    pc,            \* position of the program: parse, nfas, dfa_start, dfa_loop,
                   \* emit, ready, scan, done, failed
    spec_content,  \* main.rs: the text of the specification file
    spec,          \* spec_parser::Spec: the rules (regex, action)
    error,         \* the Err value that ended the run (or "" when none)
    nfas,          \* lexer_generator.rs: Vec<(NFA, usize)>
    dfa,           \* dfa.rs: DFA {states, start_state, transitions, next_state_id}
    worklist,      \* DFA::from_nfas: Vec<DFAStateId>
    processed,     \* DFA::from_nfas: HashSet<DFAStateId>
    lexer,         \* the emitted scanner's tables: transitions, accepting_states,
                   \* rules, start
    input,         \* tokenize: the input text
    pos,           \* tokenize: index of the next character
    line,          \* tokenize: current line, from 1
    column,        \* tokenize: current column, from 1
    tokens,        \* tokenize: Vec<String>, the token lines
    errs,          \* stderr of the scanner: the diagnostics written, in order
    steps,         \* history: one record per iteration of the scan loop
    files,         \* the files generate_lexer has written: "lexer.rs", "lexer"
    first_run      \* history: the tokens and diagnostics of the scanner's
                   \* earlier run on the same input (None when there is none)

vars == <<pc, spec_content, spec, error, nfas, dfa, worklist, processed, lexer,
          input, pos, line, column, tokens, errs, steps, files, first_run>>

-----------------------------------------------------------------------------
(* Bounds of the model.                                                    *)

\* longest enumerated scanner input
MaxInputLen == 3

\* longest enumerated regex text
MaxRegexLen == 4

\* longest enumerated body of a character class
MaxClassLen == 5

\* most lines of an enumerated specification file
MaxSpecLines == 2

\* most characters between the brackets of an enumerated class text with
\* backslashes
MaxEscapeLen == 3

-----------------------------------------------------------------------------
(* Characters.                                                             *)

\* the characters 0x20..0x5F and 0x61..0x7E in code order; 0x60 cannot be
\* written in a string of this language and is the text Chr(96) below
PrintableLo ==
    " !\"#$%&'()*+,-./0123456789:;<=>?@ABCDEFGHIJKLMNOPQRSTUVWXYZ[\\]^_"

PrintableHi == "abcdefghijklmnopqrstuvwxyz{|}~"

\* chars[i] of a text, i from 0
At(s, i) == SubSeq(s, i + 1, i + 1)

\* &s[from..to]
Slice(s, from, to) == SubSeq(s, from + 1, to)

\* `b as char` for a u8; a code that is no character of the model's texts
\* is a text of its own, equal to no character of any input
Chr(b) ==
    CASE b = 9 -> "\t"
      [] b = 10 -> "\n"
      [] b = 13 -> "\r"
      [] b \in 32..95 -> At(PrintableLo, b - 32)
      [] b \in 97..126 -> At(PrintableHi, b - 97)
      [] OTHER -> "\\x" \o ToString(b)

CharTable == [b \in 0..255 |-> Chr(b)]

\* `ch as u8`
Ord(c) == CHOOSE b \in 0..255 : CharTable[b] = c

\* an alphabet that starts at the tab, 0x09, instead of the space
AlphabetFromTab == [i \in 1..(127 - 9) |-> CharTable[9 + i - 1]]

\* (32..127u8).map(|b| b as char), as a sequence
Alphabet == [i \in 1..(127 - 32) |-> CharTable[32 + i - 1]]

\* char::is_whitespace on the characters of the model
is_whitespace(c) == c \in {" ", "\t", "\n", "\r"}

RECURSIVE trim_start(_)
trim_start(s) ==
    IF Len(s) > 0 /\ is_whitespace(At(s, 0))
    THEN trim_start(Slice(s, 1, Len(s)))
    ELSE s

RECURSIVE trim_end(_)
trim_end(s) ==
    IF Len(s) > 0 /\ is_whitespace(At(s, Len(s) - 1))
    THEN trim_end(Slice(s, 0, Len(s) - 1))
    ELSE s

\* str::trim
trim(s) == trim_end(trim_start(s))

\* str::starts_with
starts_with(s, p) == Len(s) >= Len(p) /\ Slice(s, 0, Len(p)) = p

\* str::ends_with
ends_with(s, p) == Len(s) >= Len(p) /\ Slice(s, Len(s) - Len(p), Len(s)) = p

\* index of the first occurrence of character c in s at or after i, or Len(s)
RECURSIVE find_char(_, _, _)
find_char(s, c, i) ==
    IF i >= Len(s) \/ At(s, i) = c THEN i ELSE find_char(s, c, i + 1)

\* str::lines: split at "\n", a "\r" before it dropped, no last empty line
RECURSIVE lines(_)
lines(s) ==
    IF Len(s) = 0 THEN << >>
    ELSE LET e == find_char(s, "\n", 0)
             raw == Slice(s, 0, e)
             l == IF ends_with(raw, "\r") THEN Slice(raw, 0, Len(raw) - 1) ELSE raw
         IN  <<l>> \o (IF e >= Len(s) THEN << >> ELSE lines(Slice(s, e + 1, Len(s))))

\* str::split_whitespace
RECURSIVE split_whitespace(_)
split_whitespace(s) ==
    LET t == trim_start(s)
    IN  IF Len(t) = 0 THEN << >>
        ELSE LET e == CHOOSE k \in 1..Len(t) :
                        /\ \A j \in 0..(k - 1) : ~is_whitespace(At(t, j))
                        /\ (k = Len(t) \/ is_whitespace(At(t, k)))
             IN  <<Slice(t, 0, e)>> \o split_whitespace(Slice(t, e, Len(t)))

-----------------------------------------------------------------------------
(* spec_parser.rs                                                          *)

Ok(v) == [kind |-> "Ok", value |-> v]
Err(msg) == [kind |-> "Err", msg |-> msg]
\* a Rust panic: the process aborts, no Result is returned
Panic == [kind |-> "Panic"]

Skip == [type |-> "Skip"]
Error(msg) == [type |-> "Error", message |-> msg]
Token(name, keep_lexeme) == [type |-> "Token", name |-> name, keep_lexeme |-> keep_lexeme]

parse_action(action_str0, line_num) ==
    LET action_str == trim(action_str0)
    IN  IF action_str = "(SKIP)" THEN Ok(Skip)
        ELSE IF starts_with(action_str, "(ERR)") THEN
            LET err_part == trim(Slice(action_str, 5, Len(action_str)))
            IN  IF starts_with(err_part, "\"") /\ ends_with(err_part, "\"")
                THEN IF 1 > Len(err_part) - 1
                     THEN Panic    \* err_part[1..0]: slice index order
                     ELSE Ok(Error(Slice(err_part, 1, Len(err_part) - 1)))
                ELSE Err("Line " \o ToString(line_num)
                         \o ": Error action must have quoted message")
        ELSE
            LET parts == split_whitespace(action_str)
            IN  IF Len(parts) # 2
                THEN Err("Line " \o ToString(line_num) \o ": Invalid action format")
                ELSE IF parts[2] = "true" THEN Ok(Token(parts[1], TRUE))
                ELSE IF parts[2] = "false" THEN Ok(Token(parts[1], FALSE))
                ELSE Err("Line " \o ToString(line_num)
                         \o ": Keep value must be 'true' or 'false'")

\* A variant of parse_rule that splits at the last space of the line, as the
\* comment above splitn in the source says; the properties of the shipped
\* parser that depend on the first space fail for it.
parse_rule_last_space(line_text, line_num) ==
    LET spaces == {i \in 0..(Len(line_text) - 1) : At(line_text, i) = " "}
    IN  IF spaces = {}
        THEN Err("Line " \o ToString(line_num) \o ": Invalid rule format")
        ELSE LET sp == CHOOSE i \in spaces : \A j \in spaces : j <= i
                 regex == Slice(line_text, 0, sp)
                 action == parse_action(Slice(line_text, sp + 1, Len(line_text)), line_num)
             IN  IF action.kind = "Ok"
                 THEN Ok([regex |-> regex, action |-> action.value])
                 ELSE action

parse_rule(line_text, line_num) ==
    LET sp == find_char(line_text, " ", 0)    \* splitn(2, ' ')
    IN  IF sp >= Len(line_text)
        THEN Err("Line " \o ToString(line_num) \o ": Invalid rule format")
        ELSE LET regex == Slice(line_text, 0, sp)
                 action == parse_action(Slice(line_text, sp + 1, Len(line_text)), line_num)
             IN  IF action.kind = "Ok"
                 THEN Ok([regex |-> regex, action |-> action.value])
                 ELSE action

RECURSIVE parse_lines(_, _, _)
parse_lines(ls, i, rules) ==
    IF i > Len(ls) THEN Ok([rules |-> rules])
    ELSE LET l == trim(ls[i])
         IN  IF Len(l) = 0 THEN parse_lines(ls, i + 1, rules)
             ELSE LET rule == parse_rule(l, i)
                  IN  IF rule.kind = "Ok"
                      THEN parse_lines(ls, i + 1, Append(rules, rule.value))
                      ELSE rule

parse_spec(content) == parse_lines(lines(content), 1, << >>)

-----------------------------------------------------------------------------
(* regex_parser.rs                                                         *)

Char(ch) == [type |-> "Char", ch |-> ch]
Dot == [type |-> "Dot"]
Concatenation(l, r) == [type |-> "Concatenation", left |-> l, right |-> r]
Alternation(l, r) == [type |-> "Alternation", left |-> l, right |-> r]
Kleene(x) == [type |-> "Kleene", inner |-> x]
Plus(x) == [type |-> "Plus", inner |-> x]
Optional(x) == [type |-> "Optional", inner |-> x]
\* the Vec<char> of a class is a sequence: order and repeats kept
CharClass(chars) == [type |-> "CharClass", chars |-> chars]
NegatedCharClass(chars) == [type |-> "NegatedCharClass", chars |-> chars]

\* a parser method's result: the node and the parser's new pos, or the error
POk(node, p) == [ok |-> TRUE, node |-> node, pos |-> p]
PErr(msg) == [ok |-> FALSE, msg |-> msg]

\* RegexParser::current at pos p: "" stands for None
current(chars, p) == IF p < Len(chars) THEN At(chars, p) ELSE ""

\* RegexParser::peek at pos p
peek(chars, p) == current(chars, p + 1)

\* (start_char as u8)..=(end_char as u8), each pushed as char
push_range(chars, first, last) ==
    IF last < first THEN chars    \* an empty range pushes nothing
    ELSE chars \o [i \in 1..(last - first + 1) |-> CharTable[first + i - 1]]

\* A variant of the loop of parse_char_class that reads a backslash and the
\* character after it as that character.
RECURSIVE class_items_escaped(_, _, _)
class_items_escaped(chars, p, acc) ==
    LET ch == current(chars, p)
    IN  IF ch = "" THEN [chars |-> acc, pos |-> p]
        ELSE IF ch = "]" THEN [chars |-> acc, pos |-> p + 1]
        ELSE IF ch = "\\" /\ peek(chars, p) # ""
        THEN class_items_escaped(chars, p + 2, Append(acc, peek(chars, p)))
        ELSE IF ch = "-" /\ Len(acc) > 0 /\ peek(chars, p) # "" /\ peek(chars, p) # "]"
        THEN LET end_char == current(chars, p + 1)
                 start_char == acc[Len(acc)]
             IN  class_items_escaped(chars, p + 2,
                     push_range(SubSeq(acc, 1, Len(acc) - 1), Ord(start_char), Ord(end_char)))
        ELSE class_items_escaped(chars, p + 1, Append(acc, ch))

RECURSIVE class_items(_, _, _)
class_items(chars, p, acc) ==
    LET ch == current(chars, p)
    IN  IF ch = "" THEN [chars |-> acc, pos |-> p]
        ELSE IF ch = "]" THEN [chars |-> acc, pos |-> p + 1]
        ELSE IF ch = "-" /\ Len(acc) > 0 /\ peek(chars, p) # "" /\ peek(chars, p) # "]"
        THEN LET end_char == current(chars, p + 1)
                 start_char == acc[Len(acc)]
             IN  class_items(chars, p + 2,
                     push_range(SubSeq(acc, 1, Len(acc) - 1), Ord(start_char), Ord(end_char)))
        ELSE class_items(chars, p + 1, Append(acc, ch))

parse_char_class(chars, p0) ==
    LET p1 == p0 + 1    \* consume '['
        negated == current(chars, p1) = "^"
        p2 == IF negated THEN p1 + 1 ELSE p1
        items == class_items(chars, p2, << >>)
    IN  IF negated THEN POk(NegatedCharClass(items.chars), items.pos)
        ELSE POk(CharClass(items.chars), items.pos)

parse_escape(chars, p0) ==
    LET p == p0 + 1     \* consume '\'
        ch == current(chars, p)
    IN  IF ch = "" THEN PErr("Incomplete escape sequence")
        ELSE IF ch = "t" THEN POk(Char("\t"), p + 1)
        ELSE IF ch = "n" THEN POk(Char("\n"), p + 1)
        ELSE IF ch = "_" THEN POk(Char(" "), p + 1)
        ELSE POk(Char(ch), p + 1)

\* The parser's methods call each other; a method's result is handed to the
\* operator that continues with it.
RECURSIVE parse_alternation(_, _)
RECURSIVE alternation_rest(_, _)
RECURSIVE parse_concatenation(_, _)
RECURSIVE concatenation_nodes(_, _, _)
RECURSIVE parse_postfix(_, _)
RECURSIVE parse_primary(_, _)

\* parse_primary, lines 109-114: after the alternation inside '(' ... ')'
close_group(chars, r) ==
    IF ~r.ok THEN r
    ELSE IF current(chars, r.pos) # ")" THEN PErr("Missing closing parenthesis")
    ELSE POk(r.node, r.pos + 1)

parse_primary(chars, p) ==
    LET ch == current(chars, p)
    IN  IF ch = "" THEN PErr("Unexpected end of input")
        ELSE IF ch = "(" THEN close_group(chars, parse_alternation(chars, p + 1))
        ELSE IF ch = "[" THEN parse_char_class(chars, p)
        ELSE IF ch = "." THEN POk(Dot, p + 1)
        ELSE IF ch = "\\" THEN parse_escape(chars, p)
        ELSE IF ch \notin {"|", ")", "*", "+", "?"} THEN POk(Char(ch), p + 1)
        ELSE PErr("Unexpected character: " \o ch)

\* parse_postfix, lines 84-102: the while loop over '*', '+', '?' after the
\* primary r
RECURSIVE postfix_ops(_, _)
postfix_ops(chars, r) ==
    IF ~r.ok THEN r
    ELSE LET ch == current(chars, r.pos)
         IN  IF ch = "*" THEN postfix_ops(chars, POk(Kleene(r.node), r.pos + 1))
             ELSE IF ch = "+" THEN postfix_ops(chars, POk(Plus(r.node), r.pos + 1))
             ELSE IF ch = "?" THEN postfix_ops(chars, POk(Optional(r.node), r.pos + 1))
             ELSE r

parse_postfix(chars, p) == postfix_ops(chars, parse_primary(chars, p))

\* parse_concatenation, line 65: nodes.push(self.parse_postfix()?)
push_node(chars, nodes, r) ==
    IF ~r.ok THEN r ELSE concatenation_nodes(chars, r.pos, Append(nodes, r.node))

\* parse_concatenation, lines 61-66: the while loop; the nodes pushed, or
\* the error
concatenation_nodes(chars, p, nodes) ==
    IF current(chars, p) \in {"", "|", ")"}
    THEN [ok |-> TRUE, nodes |-> nodes, pos |-> p]
    ELSE push_node(chars, nodes, parse_postfix(chars, p))

\* the left fold of nodes[i..] into Concatenation
RECURSIVE fold_concatenation(_, _, _)
fold_concatenation(result, nodes, i) ==
    IF i > Len(nodes) THEN result
    ELSE fold_concatenation(Concatenation(result, nodes[i]), nodes, i + 1)

\* parse_concatenation, lines 68-78
concatenation_result(r) ==
    IF ~r.ok THEN r
    ELSE IF Len(r.nodes) = 0 THEN PErr("Empty concatenation")
    ELSE POk(fold_concatenation(r.nodes[1], r.nodes, 2), r.pos)

parse_concatenation(chars, p) ==
    concatenation_result(concatenation_nodes(chars, p, << >>))

\* parse_alternation, lines 51-52: the right operand of a '|'
alternate(chars, left, right) ==
    IF ~right.ok THEN right
    ELSE alternation_rest(chars, POk(Alternation(left.node, right.node), right.pos))

\* parse_alternation, lines 49-55: the while loop over '|'
alternation_rest(chars, left) ==
    IF ~left.ok THEN left
    ELSE IF current(chars, left.pos) = "|"
    THEN alternate(chars, left, parse_concatenation(chars, left.pos + 1))
    ELSE left

parse_alternation(chars, p) == alternation_rest(chars, parse_concatenation(chars, p))

\* Result<RegexNode, String> of a parser result
regex_result(r) == IF r.ok THEN Ok(r.node) ELSE Err(r.msg)

\* parse_regex: the AST of parse_alternation from pos 0; what follows the
\* position it stopped at is not looked at
parse_regex(regex) == regex_result(parse_alternation(regex, 0))

-----------------------------------------------------------------------------
(* nfa.rs                                                                  *)

\* Transition::Epsilon; Transition::Char(c) is the character c itself
Epsilon == "Epsilon"

\* NFA::new.  transitions, a map from (state, label) to a set of states, is
\* the set of its triples <<from, label, to>>
NFA_new ==
    [states |-> {}, start_state |-> 0, accept_states |-> {},
     transitions |-> {}, next_state_id |-> 0]

\* A variant of new_state that hands out the same id again.
new_state_not_fresh(nfa) ==
    [nfa EXCEPT !.states = @ \cup {nfa.next_state_id}]

\* NFA::new_state: the NFA with the state added; the new id is the old
\* next_state_id
new_state(nfa) ==
    [nfa EXCEPT !.states = @ \cup {nfa.next_state_id},
                !.next_state_id = @ + 1]

\* A variant of add_transition that also adds the edge back.
add_transition_both_ways(nfa, from, transition, to) ==
    [nfa EXCEPT !.transitions = @ \cup {<<from, transition, to>>, <<to, transition, from>>}]

add_transition(nfa, from, transition, to) ==
    [nfa EXCEPT !.transitions = @ \cup {<<from, transition, to>>}]

\* the characters a Dot or a negated class adds: 32..127 except '\n' and the
\* excluded ones
any_char_transitions(start, accept, excluded) ==
    {<<start, Alphabet[i], accept>> :
        i \in {j \in 1..Len(Alphabet) : Alphabet[j] \notin excluded /\ Alphabet[j] # "\n"}}

RECURSIVE build_nfa(_, _, _, _)
build_nfa(nfa, regex, start, accept) ==
    CASE regex.type = "Char" ->
            add_transition(nfa, start, regex.ch, accept)
      [] regex.type = "Dot" ->
            [nfa EXCEPT !.transitions = @ \cup any_char_transitions(start, accept, {})]
      [] regex.type = "Concatenation" ->
            LET n1 == new_state(nfa)
                middle == nfa.next_state_id
                n2 == build_nfa(n1, regex.left, start, middle)
            IN  build_nfa(n2, regex.right, middle, accept)
      [] regex.type = "Alternation" ->
            build_nfa(build_nfa(nfa, regex.left, start, accept), regex.right, start, accept)
      [] regex.type = "Kleene" ->
            LET n1 == add_transition(nfa, start, Epsilon, accept)
                n2 == new_state(n1)
                loop_start == n1.next_state_id
                n3 == new_state(n2)
                loop_end == n2.next_state_id
                n4 == add_transition(n3, start, Epsilon, loop_start)
                n5 == build_nfa(n4, regex.inner, loop_start, loop_end)
                n6 == add_transition(n5, loop_end, Epsilon, accept)
            IN  add_transition(n6, loop_end, Epsilon, loop_start)
      [] regex.type = "Plus" ->
            LET n1 == new_state(nfa)
                middle == nfa.next_state_id
                n2 == build_nfa(n1, regex.inner, start, middle)
                n3 == new_state(n2)
                loop_start == n2.next_state_id
                n4 == add_transition(n3, middle, Epsilon, loop_start)
                n5 == add_transition(n4, middle, Epsilon, accept)
                n6 == new_state(n5)
                loop_end == n5.next_state_id
                n7 == build_nfa(n6, regex.inner, loop_start, loop_end)
                n8 == add_transition(n7, loop_end, Epsilon, accept)
            IN  add_transition(n8, loop_end, Epsilon, loop_start)
      [] regex.type = "Optional" ->
            build_nfa(add_transition(nfa, start, Epsilon, accept), regex.inner, start, accept)
      [] regex.type = "CharClass" ->
            [nfa EXCEPT !.transitions =
                @ \cup {<<start, regex.chars[i], accept>> : i \in 1..Len(regex.chars)}]
      [] regex.type = "NegatedCharClass" ->
            [nfa EXCEPT !.transitions =
                @ \cup any_char_transitions(start, accept,
                           {regex.chars[i] : i \in 1..Len(regex.chars)})]

from_regex(regex) ==
    LET n1 == new_state(NFA_new)
        start == NFA_new.next_state_id
        n2 == new_state(n1)
        accept == n1.next_state_id
        n3 == [n2 EXCEPT !.start_state = start, !.accept_states = @ \cup {accept}]
    IN  build_nfa(n3, regex, start, accept)

\* the states of a set in some order: the order a HashSet is iterated in
RECURSIVE SetToSeq(_)
SetToSeq(S) ==
    IF S = {} THEN << >>
    ELSE CHOOSE seq \in
            {<<x>> \o SetToSeq(S \ {x}) : x \in {CHOOSE y \in S : TRUE}} : TRUE

\* the targets of `state` on `label`: transitions.get(&(state, label))
targets(nfa, state, label) ==
    {t[3] : t \in {u \in nfa.transitions : u[1] = state /\ u[2] = label}}

\* A variant of the loop that adds the epsilon targets of a popped state
\* but does not push them.
RECURSIVE closure_loop_no_push(_, _, _)
closure_loop_no_push(nfa, closure, stack) ==
    IF Len(stack) = 0 THEN closure
    ELSE closure_loop_no_push(nfa,
            closure \cup targets(nfa, stack[Len(stack)], Epsilon),
            SubSeq(stack, 1, Len(stack) - 1))

\* the while loop of epsilon_closure: pop the last state of the stack, add
\* and push its epsilon targets not yet in the closure (fresh, a value
\* computed once: the one element of a set)
RECURSIVE closure_loop(_, _, _)
closure_loop(nfa, closure, stack) ==
    IF Len(stack) = 0 THEN closure
    ELSE CHOOSE result \in
            {closure_loop(nfa, closure \cup {fresh[i] : i \in 1..Len(fresh)},
                          SubSeq(stack, 1, Len(stack) - 1) \o fresh) :
                fresh \in {SetToSeq(targets(nfa, stack[Len(stack)], Epsilon)
                                        \ closure)}} : TRUE

epsilon_closure(nfa, states) == closure_loop(nfa, states, SetToSeq(states))

move_on_char(nfa, states, ch) ==
    UNION {targets(nfa, state, ch) : state \in states}

-----------------------------------------------------------------------------
(* dfa.rs                                                                  *)

\* Option<T>
None == << >>
Some(x) == <<x>>

\* nfas is the Vec<(NFA, usize)>: nfas[k].nfa is the NFA of nfa_index k - 1
\* and nfas[k].index its rule index.  A membership map nfa_states is a
\* function from the nfa indices it has an entry for to their state sets.

\* the loop of check_accepting from nfa_index k - 1 on, best so far `best`
RECURSIVE accepting_loop(_, _, _, _)
accepting_loop(nfa_states, nfa_list, k, best) ==
    IF k > Len(nfa_list) THEN best
    ELSE LET nfa_index == k - 1
             hit == /\ nfa_index \in DOMAIN nfa_states
                    /\ nfa_list[k].nfa.accept_states \cap nfa_states[nfa_index] # {}
             rule_index == nfa_list[k].index
             next == IF ~hit THEN best
                     ELSE IF best = None THEN Some(rule_index)
                     ELSE IF rule_index < best[1] THEN Some(rule_index)
                     ELSE best
         IN  accepting_loop(nfa_states, nfa_list, k + 1, next)

\* A variant of check_accepting that keeps the greatest accepting rule index
\* instead of the least.
RECURSIVE accepting_loop_greatest(_, _, _, _)
accepting_loop_greatest(nfa_states, nfa_list, k, best) ==
    IF k > Len(nfa_list) THEN best
    ELSE LET nfa_index == k - 1
             hit == /\ nfa_index \in DOMAIN nfa_states
                    /\ nfa_list[k].nfa.accept_states \cap nfa_states[nfa_index] # {}
             rule_index == nfa_list[k].index
             next == IF ~hit THEN best
                     ELSE IF best = None THEN Some(rule_index)
                     ELSE IF rule_index > best[1] THEN Some(rule_index)
                     ELSE best
         IN  accepting_loop_greatest(nfa_states, nfa_list, k + 1, next)

check_accepting_greatest(nfa_states, nfa_list) ==
    LET best_rule_index == accepting_loop_greatest(nfa_states, nfa_list, 1, None)
    IN  <<best_rule_index # None, best_rule_index>>

\* A variant of check_accepting that calls every state accepting.
check_accepting_always(nfa_states, nfa_list) ==
    <<TRUE, accepting_loop(nfa_states, nfa_list, 1, None)>>

\* check_accepting: (is_accepting, rule_index)
check_accepting(nfa_states, nfa_list) ==
    LET best_rule_index == accepting_loop(nfa_states, nfa_list, 1, None)
    IN  <<best_rule_index # None, best_rule_index>>

\* A variant of new_state that labels the state from the first NFA alone.
DFA_new_state_first_nfa(d, nfa_states, nfa_list) ==
    LET state_id == d.next_state_id
        acc == check_accepting(nfa_states,
                  IF Len(nfa_list) = 0 THEN nfa_list ELSE <<nfa_list[1]>>)
        state == [nfa_states |-> nfa_states, is_accepting |-> acc[1], rule_index |-> acc[2]]
    IN  [d EXCEPT !.next_state_id = @ + 1,
                  !.states = @ @@ (state_id :> state)]

\* the for loop of DFA::longest_match from index p of its input on
RECURSIVE DFA_match_loop(_, _, _, _, _, _)
DFA_match_loop(d, inp, p, current_state, last_accepting_pos, last_accepting_rule) ==
    IF p >= Len(inp) THEN <<last_accepting_pos, last_accepting_rule>>
    ELSE IF <<current_state, At(inp, p)>> \in DOMAIN d.transitions
    THEN LET next_state_id == d.transitions[<<current_state, At(inp, p)>>]
         IN  IF next_state_id \in DOMAIN d.states /\ d.states[next_state_id].is_accepting
             THEN DFA_match_loop(d, inp, p + 1, next_state_id, p + 1,
                                 d.states[next_state_id].rule_index)
             ELSE DFA_match_loop(d, inp, p + 1, next_state_id,
                                 last_accepting_pos, last_accepting_rule)
    ELSE <<last_accepting_pos, last_accepting_rule>>

\* DFA::longest_match: (last_accepting_pos, last_accepting_rule)
DFA_longest_match(d, inp) ==
    DFA_match_loop(d, inp, 0, d.start_state, 0,
                   IF d.start_state \in DOMAIN d.states /\ d.states[d.start_state].is_accepting
                   THEN d.states[d.start_state].rule_index
                   ELSE None)

\* the line/column update of DFA::simulate for the characters of a lexeme
RECURSIVE DFA_advance_over(_, _, _)
DFA_advance_over(ln, col, lexeme) ==
    IF Len(lexeme) = 0 THEN <<ln, col>>
    ELSE IF At(lexeme, 0) = "\n"
    THEN DFA_advance_over(ln + 1, 1, Slice(lexeme, 1, Len(lexeme)))
    ELSE DFA_advance_over(ln, col + 1, Slice(lexeme, 1, Len(lexeme)))

\* the while loop of DFA::simulate from pos on.  tokens is the Vec it builds;
\* decisions records, for every iteration, its pos and what longest_match
\* returned
RECURSIVE simulate_loop(_, _, _, _, _, _, _)
simulate_loop(d, chars, p, ln, col, toks, decisions) ==
    IF p >= Len(chars)
    THEN [tokens |-> Append(toks, <<"", ln, col, None>>), decisions |-> decisions]
    ELSE LET m == DFA_longest_match(d, Slice(chars, p, Len(chars)))
             token_length == m[1]
             rule_index == m[2]
             lexeme == Slice(chars, p, p + token_length)
             lc == DFA_advance_over(ln, col, lexeme)
             decided == Append(decisions, <<p, token_length, rule_index>>)
         IN  IF token_length > 0
             THEN simulate_loop(d, chars, p + token_length, lc[1], lc[2],
                                Append(toks, <<lexeme, ln, col, rule_index>>), decided)
             ELSE simulate_loop(d, chars, p + 1,
                                IF At(chars, p) = "\n" THEN ln + 1 ELSE ln,
                                IF At(chars, p) = "\n" THEN 1 ELSE col + 1,
                                toks, decided)

\* DFA::simulate
simulate(d, inp) == simulate_loop(d, inp, 0, 1, 1, << >>, << >>)

\* DFA::new_state: the DFA with the state added; its id is the old next_state_id
DFA_new_state(d, nfa_states, nfa_list) ==
    LET state_id == d.next_state_id
        acc == check_accepting(nfa_states, nfa_list)
        state == [nfa_states |-> nfa_states, is_accepting |-> acc[1], rule_index |-> acc[2]]
    IN  [d EXCEPT !.next_state_id = @ + 1,
                  !.states = @ @@ (state_id :> state)]

\* A variant of find_or_create_state that never looks for an existing state.
find_or_create_state_always_new(d, nfa_states, nfa_list) ==
    <<DFA_new_state(d, nfa_states, nfa_list), d.next_state_id>>

\* DFA::find_or_create_state: <<the DFA, the id found or created>>
find_or_create_state(d, nfa_states, nfa_list) ==
    LET same == {id \in DOMAIN d.states : d.states[id].nfa_states = nfa_states}
    IN  IF same # {}
        THEN <<d, CHOOSE id \in same : TRUE>>    \* the first one met; any order
        ELSE <<DFA_new_state(d, nfa_states, nfa_list), d.next_state_id>>

\* from_nfas, lines 24-38: the start state's membership map
start_nfa_states(nfa_list) ==
    [nfa_index \in 0..(Len(nfa_list) - 1) |->
        epsilon_closure(nfa_list[nfa_index + 1].nfa, {nfa_list[nfa_index + 1].nfa.start_state})]

\* A variant of next_nfa_states that keeps an entry for every NFA of the
\* state, also when its move is empty.
next_nfa_states_keep_empty(current_state, nfa_list, ch) ==
    [nfa_index \in DOMAIN current_state.nfa_states |->
        epsilon_closure(nfa_list[nfa_index + 1].nfa,
            move_on_char(nfa_list[nfa_index + 1].nfa,
                         current_state.nfa_states[nfa_index], ch))]

\* from_nfas, lines 57-68: the membership map reached from current_state on
\* ch; an NFA whose move is empty gets no entry
next_nfa_states(current_state, nfa_list, ch) ==
    CHOOSE next \in
        {[nfa_index \in {n \in DOMAIN moved : moved[n] # {}} |->
             epsilon_closure(nfa_list[nfa_index + 1].nfa, moved[nfa_index])] :
            moved \in {[nfa_index \in DOMAIN current_state.nfa_states |->
                           move_on_char(nfa_list[nfa_index + 1].nfa,
                                        current_state.nfa_states[nfa_index], ch)]}} : TRUE

\* A variant of the loop body that inserts the transition but never pushes
\* its target onto the worklist.
alphabet_step_no_push(st, current_state_id, current_state, nfa_list, done, i) ==
    CHOOSE after \in
        {IF DOMAIN nxt = {} THEN st
         ELSE CHOOSE inserted \in
                 {[dfa |-> [found[1] EXCEPT !.transitions =
                               (<<current_state_id, Alphabet[i]>> :> found[2]) @@ @],
                   worklist |-> st.worklist] :
                     found \in {find_or_create_state(st.dfa, nxt, nfa_list)}} : TRUE
            : nxt \in {next_nfa_states(current_state, nfa_list, Alphabet[i])}} : TRUE

\* from_nfas, lines 57-80: the body of the for loop for the i-th character
\* of the alphabet and the popped state; st is [dfa, worklist], nxt is
\* next_nfa_states and found[2] is next_state_id, each a value computed
\* once: the one element of a set
alphabet_step(st, current_state_id, current_state, nfa_list, done, i) ==
    CHOOSE after \in
        {IF DOMAIN nxt = {} THEN st
         ELSE CHOOSE inserted \in
                 {[dfa |-> [found[1] EXCEPT !.transitions =
                               (<<current_state_id, Alphabet[i]>> :> found[2]) @@ @],
                   worklist |-> IF found[2] \notin done
                                THEN Append(st.worklist, found[2])
                                ELSE st.worklist] :
                     found \in {find_or_create_state(st.dfa, nxt, nfa_list)}} : TRUE
            : nxt \in {next_nfa_states(current_state, nfa_list, Alphabet[i])}} : TRUE

\* from_nfas, lines 56-81: the for loop over the characters lo..hi of the
\* alphabet, in order.  The range is halved and st is looked at first only
\* to keep the evaluation shallow: next_state_id is never negative
RECURSIVE alphabet_loop(_, _, _, _, _, _, _)
alphabet_loop(st, current_state_id, current_state, nfa_list, done, lo, hi) ==
    IF st.dfa.next_state_id < 0 \/ lo > hi THEN st
    ELSE IF lo = hi
    THEN alphabet_step(st, current_state_id, current_state, nfa_list, done, lo)
    ELSE LET mid == (lo + hi) \div 2
         IN  CHOOSE last \in
                 {alphabet_loop(first, current_state_id, current_state, nfa_list,
                                done, mid + 1, hi) :
                     first \in {alphabet_loop(st, current_state_id, current_state,
                                              nfa_list, done, lo, mid)}} : TRUE

-----------------------------------------------------------------------------
(* lexer_generator.rs: the emitted source, read back as rustc reads it     *)

escape_char(ch) ==
    CASE ch = "\n" -> "\\n"
      [] ch = "\t" -> "\\t"
      [] ch = "\r" -> "\\r"
      [] ch = "\\" -> "\\\\"
      [] ch = "'" -> "\\'"
      [] ch = "\"" -> "\\\""
      [] OTHER -> ch

\* str::replace of one character by a text
RECURSIVE replace_char(_, _, _)
replace_char(s, c, by) ==
    IF Len(s) = 0 THEN ""
    ELSE (IF At(s, 0) = c THEN by ELSE At(s, 0)) \o replace_char(Slice(s, 1, Len(s)), c, by)

escape_string(s) ==
    replace_char(replace_char(replace_char(replace_char(replace_char(
        s, "\\", "\\\\"), "\"", "\\\""), "\n", "\\n"), "\t", "\\t"), "\r", "\\r")

\* the character an escape of a Rust literal stands for, "" when rustc
\* rejects the escape
rust_escape(c) ==
    CASE c = "n" -> "\n"
      [] c = "t" -> "\t"
      [] c = "r" -> "\r"
      [] c = "\\" -> "\\"
      [] c = "'" -> "'"
      [] c = "\"" -> "\""
      [] OTHER -> ""

\* the value of the Rust literal "<body>": Some(text), or None when the body
\* does not make one well-formed string literal
RECURSIVE rust_string_literal(_, _, _)
rust_string_literal(body, i, acc) ==
    IF i >= Len(body) THEN Some(acc)
    ELSE IF At(body, i) = "\"" THEN None
    ELSE IF At(body, i) = "\\"
    THEN IF i + 1 >= Len(body) \/ rust_escape(At(body, i + 1)) = "" THEN None
         ELSE rust_string_literal(body, i + 2, acc \o rust_escape(At(body, i + 1)))
    ELSE rust_string_literal(body, i + 1, acc \o At(body, i))

\* the value of the Rust literal '<body>' that escape_char wrote
rust_char_literal(body) ==
    IF Len(body) = 2 /\ At(body, 0) = "\\" /\ rust_escape(At(body, 1)) # ""
    THEN rust_escape(At(body, 1))
    ELSE body

\* lines 84-91: the transitions table of the emitted scanner
lexer_transitions(d) ==
    LET key(k) == <<k[1], rust_char_literal(escape_char(k[2]))>>
    IN  [kk \in {key(k) : k \in DOMAIN d.transitions} |->
            d.transitions[CHOOSE k \in DOMAIN d.transitions : key(k) = kk]]

\* A variant of the accepting_states table that names rule 0 for every
\* accepting state.
lexer_accepting_states_rule_0(d) ==
    [id \in {i \in DOMAIN d.states :
                d.states[i].is_accepting /\ d.states[i].rule_index # None} |-> 0]

\* lines 94-105: the accepting_states table
lexer_accepting_states(d) ==
    [id \in {i \in DOMAIN d.states :
                d.states[i].is_accepting /\ d.states[i].rule_index # None} |->
        d.states[id].rule_index[1]]

\* lines 108-126: one element of the rules vector, None when its literal
\* does not compile
lexer_rule(action) ==
    CASE action.type = "Skip" -> Some(Skip)
      [] action.type = "Error" ->
            LET m == rust_string_literal(escape_string(action.message), 0, "")
            IN  IF m = None THEN None ELSE Some(Error(m[1]))
      [] action.type = "Token" ->
            LET n == rust_string_literal(action.name, 0, "")
            IN  IF n = None THEN None ELSE Some(Token(n[1], action.keep_lexeme))

\* generate_lexer_code and rustc: the tables of the compiled scanner, None
\* when the emitted source does not compile
generate_lexer_code(sp, d) ==
    LET rs == [i \in 1..Len(sp.rules) |-> lexer_rule(sp.rules[i].action)]
    IN  IF \E i \in 1..Len(rs) : rs[i] = None THEN None
        ELSE Some([transitions |-> lexer_transitions(d),
                   accepting_states |-> lexer_accepting_states(d),
                   rules |-> [i \in 1..Len(rs) |-> rs[i][1]],
                   start |-> d.start_state])

\* generate_lexer, lines 10-18: the loop over the rules from the k-th on
RECURSIVE build_nfas(_, _, _)
build_nfas(rules, k, acc) ==
    IF k > Len(rules) THEN Ok(acc)
    ELSE LET regex_ast == parse_regex(rules[k].regex)
         IN  IF regex_ast.kind = "Err"
             THEN Err("Error parsing regex '" \o rules[k].regex \o "': " \o regex_ast.msg)
             ELSE build_nfas(rules, k + 1,
                     Append(acc, [nfa |-> from_regex(regex_ast.value), index |-> k - 1]))

-----------------------------------------------------------------------------
(* lexer.rs: the emitted scanner                                           *)

\* the for loop of longest_match from index p of its input on
RECURSIVE match_loop(_, _, _, _, _, _)
match_loop(inp, lx, p, current_state, last_accepting_pos, last_accepting_rule) ==
    IF p >= Len(inp) THEN <<last_accepting_pos, last_accepting_rule>>
    ELSE IF <<current_state, At(inp, p)>> \in DOMAIN lx.transitions
    THEN LET next_state == lx.transitions[<<current_state, At(inp, p)>>]
         IN  IF next_state \in DOMAIN lx.accepting_states
             THEN match_loop(inp, lx, p + 1, next_state, p + 1,
                             Some(lx.accepting_states[next_state]))
             ELSE match_loop(inp, lx, p + 1, next_state,
                             last_accepting_pos, last_accepting_rule)
    ELSE <<last_accepting_pos, last_accepting_rule>>

\* A variant of longest_match that reports a match of one character whenever
\* the loop found a match of any positive length.
longest_match_one_char(inp, lx) ==
    LET m == match_loop(inp, lx, 0, lx.start, 0,
                        IF lx.start \in DOMAIN lx.accepting_states
                        THEN Some(lx.accepting_states[lx.start]) ELSE None)
    IN  <<IF m[1] > 0 THEN 1 ELSE 0, m[2]>>

\* longest_match(&chars[pos..], &transitions, &accepting_states):
\* (last_accepting_pos, last_accepting_rule)
longest_match(inp, lx) ==
    match_loop(inp, lx, 0, lx.start, 0,
               IF lx.start \in DOMAIN lx.accepting_states
               THEN Some(lx.accepting_states[lx.start]) ELSE None)

\* A variant of advance that leaves the column alone.
advance_keep_column(ln, col, ch) ==
    IF ch = "\n" THEN <<ln + 1, 1>> ELSE <<ln, col>>

\* the line/column update for one character: <<line, column>>
advance(ln, col, ch) ==
    IF ch = "\n" THEN <<ln + 1, 1>> ELSE <<ln, col + 1>>

\* lines 217-224: the update for chars[i] of the lexeme, i from 0
RECURSIVE advance_over(_, _, _)
advance_over(ln, col, lexeme) ==
    IF Len(lexeme) = 0 THEN <<ln, col>>
    ELSE CHOOSE lc \in
            {advance_over(a[1], a[2], rest) :
                a \in {advance(ln, col, At(lexeme, 0))},
                rest \in {Slice(lexeme, 1, Len(lexeme))}} : TRUE

\* A variant of the token line whose column is not counted afresh in a later
\* run of the scanner: it goes on from the number of token lines of the
\* earlier run.
token_str_not_reset(name, keep_lexeme, lexeme, ln, col) ==
    LET c == IF first_run = None THEN col ELSE col + Len(first_run[1].tokens)
    IN  IF keep_lexeme
        THEN name \o ":" \o lexeme \o " [" \o ToString(ln) \o "," \o ToString(c) \o "]"
        ELSE name \o " [" \o ToString(ln) \o "," \o ToString(c) \o "]"

\* lines 205-211: the token line
token_str(name, keep_lexeme, lexeme, ln, col) ==
    IF keep_lexeme
    THEN name \o ":" \o lexeme \o " [" \o ToString(ln) \o "," \o ToString(col) \o "]"
    ELSE name \o " [" \o ToString(ln) \o "," \o ToString(col) \o "]"

\* A variant of dispatch in which an Error rule also pushes a token line.
dispatch_error_token(rules, rule_index, lexeme, ln, col, toks, es) ==
    IF rule_index = None THEN <<toks, es>>
    ELSE LET action == rules[rule_index[1] + 1]
         IN  CASE action.type = "Skip" -> <<toks, es>>
               [] action.type = "Error" ->
                    <<Append(toks, token_str(action.message, FALSE, lexeme, ln, col)),
                      Append(es, action.message)>>
               [] action.type = "Token" ->
                    <<Append(toks, token_str(action.name, action.keep_lexeme, lexeme, ln, col)),
                      es>>

\* lines 199-214: the action of the winning rule: <<tokens, errs>>
dispatch(rules, rule_index, lexeme, ln, col, toks, es) ==
    IF rule_index = None THEN <<toks, es>>
    ELSE LET action == rules[rule_index[1] + 1]
         IN  CASE action.type = "Skip" -> <<toks, es>>
               [] action.type = "Error" -> <<toks, Append(es, action.message)>>
               [] action.type = "Token" ->
                    <<Append(toks, token_str(action.name, action.keep_lexeme, lexeme, ln, col)),
                      es>>

\* A variant of the match branch that runs the winning rule's action once
\* per character of the lexeme.
RECURSIVE dispatch_each(_, _, _, _, _, _, _, _)
dispatch_each(n, rules, rule_index, lexeme, ln, col, toks, es) ==
    IF n = 0 THEN <<toks, es>>
    ELSE LET out == dispatch(rules, rule_index, lexeme, ln, col, toks, es)
         IN  dispatch_each(n - 1, rules, rule_index, lexeme, ln, col, out[1], out[2])

match_branch_repeated(lx, inp, p, ln, col, toks, es, token_length, rule_index) ==
    LET lexeme == Slice(inp, p, p + token_length)
        out == dispatch_each(token_length, lx.rules, rule_index, lexeme, ln, col, toks, es)
        lc == advance_over(ln, col, lexeme)
    IN  [pos |-> p + token_length, line |-> lc[1], column |-> lc[2],
         tokens |-> out[1], errs |-> out[2]]

\* lines 196-225: the branch token_length > 0
match_branch(lx, inp, p, ln, col, toks, es, token_length, rule_index) ==
    CHOOSE after \in
        {[pos |-> p + token_length, line |-> lc[1], column |-> lc[2],
          tokens |-> out[1], errs |-> out[2]] :
            out \in {dispatch(lx.rules, rule_index, Slice(inp, p, p + token_length),
                              ln, col, toks, es)},
            lc \in {advance_over(ln, col, Slice(inp, p, p + token_length))}} : TRUE

\* A variant of the no-match branch that does not move on.
no_match_branch_stay(inp, p, ln, col, toks, es) ==
    [pos |-> p, line |-> ln, column |-> col, tokens |-> toks, errs |-> es]

\* A variant of the no-match branch that does not look for '\n'.
no_match_branch_no_newline(inp, p, ln, col, toks, es) ==
    [pos |-> p + 1, line |-> ln, column |-> col + 1, tokens |-> toks, errs |-> es]

\* lines 226-235: the branch token_length = 0
no_match_branch(inp, p, ln, col, toks, es) ==
    LET lc == IF At(inp, p) = "\n" THEN <<ln + 1, 1>> ELSE <<ln, col + 1>>
    IN  [pos |-> p + 1, line |-> lc[1], column |-> lc[2], tokens |-> toks, errs |-> es]

\* lines 193-236: one iteration of the while loop
scan_iteration(lx, inp, p, ln, col, toks, es) ==
    CHOOSE after \in
        {IF m[1] > 0    \* (token_length, rule_index) = m
         THEN match_branch(lx, inp, p, ln, col, toks, es, m[1], m[2])
         ELSE no_match_branch(inp, p, ln, col, toks, es) :
            m \in {longest_match(Slice(inp, p, Len(inp)), lx)}} : TRUE

\* A variant of the EOF line that reports the column of the last character
\* instead of the column after it.
eof_token_last_column(ln, col) ==
    "EOF [" \o ToString(ln) \o "," \o ToString(IF col > 1 THEN col - 1 ELSE col) \o "]"

\* lines 238-240: the EOF line
eof_token(ln, col) == "EOF [" \o ToString(ln) \o "," \o ToString(col) \o "]"

-----------------------------------------------------------------------------
(* The inputs of a run: the specification file and the scanned text.       *)

\* the specification of the end-to-end scenarios, one space between fields
ScenarioSpec ==
    "hello GREETING true\n[a-z]+ WORD true\n[ \\t\\n]+ (SKIP)\n. (ERR) \"bad input\""

\* the same rules with the blank written as the escape \_ outside a class
EscapedScenarioSpec ==
    "hello GREETING true\n[a-z]+ WORD false\n\\_+ (SKIP)\n. (ERR) \"bad input\""

\* the literals of the literal-only specifications
Literals == {"a", "b", "ab", "ba"}

\* a specification whose rules are literals, rule i emitting Ti with its lexeme
LiteralSpecs ==
    {l \o " T0 true" : l \in Literals}
    \cup {l0 \o " T0 true\n" \o l1 \o " T1 true" : l0 \in Literals, l1 \in Literals}

SpecTexts ==
    LiteralSpecs \cup
    { ScenarioSpec,
      EscapedScenarioSpec,
      "hello GREETING true\n[a-z]+ WORD true",
      "[a-z]+ WORD true\nhello GREETING true",
      "a A true\na\\n AN true\n\\n NL false",
      "a* AS true\nb B false",
      "b* BS true\na*|b+ AB false",
      "(a*)* N true\n(b?)+ M false",
      "(a|b)?b OPT true\n\n[^a]  (SKIP)\r\na+b|b* (ERR) \"x\"",
      "ab+ X false\na(b|\\?)* Y true\n\\? (ERR) \"q\"",
      "",
      "a A true\nb",
      "a) A true\n(b B true" }

\* the characters of the enumerated inputs
InputChars == {"a", "b", "?", "\n"}

RECURSIVE Strings(_)
Strings(n) ==
    IF n = 0 THEN {""}
    ELSE LET shorter == Strings(n - 1)
         IN  shorter \cup {s \o c : s \in shorter, c \in InputChars}

\* the inputs of the end-to-end scenarios
ScenarioInputs ==
    {"hello", "hello world", "helloworld", "hi\nbye", "? a", "\ta", "a\t\rb"}

Inputs == Strings(MaxInputLen) \cup ScenarioInputs

-----------------------------------------------------------------------------
(* The program: gen <spec-file>, then the emitted scanner on an input.     *)

NoDFA == [states |-> << >>, start_state |-> 0, transitions |-> << >>, next_state_id |-> 0]
NoLexer == [transitions |-> << >>, accepting_states |-> << >>, rules |-> << >>, start |-> 0]

Init ==
    /\ pc = "parse"
    /\ spec_content \in SpecTexts
    /\ spec = [rules |-> << >>]
    /\ error = ""
    /\ nfas = << >>
    /\ dfa = NoDFA
    /\ worklist = << >>
    /\ processed = {}
    /\ lexer = NoLexer
    /\ input = ""
    /\ pos = 0
    /\ line = 1
    /\ column = 1
    /\ tokens = << >>
    /\ errs = << >>
    /\ steps = << >>
    /\ files = {}
    /\ first_run = None

\* main.rs, lines 34-40: parse_spec on the file's text
ParseSpec ==
    /\ pc = "parse"
    /\ LET r == parse_spec(spec_content)
       IN  CASE r.kind = "Ok" ->
                    /\ spec' = r.value
                    /\ pc' = "nfas"
                    /\ error' = error
             [] r.kind = "Err" ->
                    /\ error' = "Error parsing spec: " \o r.msg
                    /\ pc' = "failed"
                    /\ spec' = spec
             [] r.kind = "Panic" ->
                    /\ pc' = "panic"
                    /\ UNCHANGED <<spec, error>>
    /\ UNCHANGED <<spec_content, nfas, dfa, worklist, processed, lexer,
                   input, pos, line, column, tokens, errs, steps, files, first_run>>

\* generate_lexer, lines 10-18: an NFA per rule
BuildNFAs ==
    /\ pc = "nfas"
    /\ LET r == build_nfas(spec.rules, 1, << >>)
       IN  IF r.kind = "Ok"
           THEN /\ nfas' = r.value
                /\ pc' = "dfa_start"
                /\ error' = error
           ELSE /\ error' = "Error generating lexer: " \o r.msg
                /\ pc' = "failed"
                /\ nfas' = nfas
    /\ UNCHANGED <<spec_content, spec, dfa, worklist, processed, lexer,
                   input, pos, line, column, tokens, errs, steps, files, first_run>>

\* DFA::from_nfas, lines 24-45: the start state and the worklist
DFAStart ==
    /\ pc = "dfa_start"
    /\ LET d == DFA_new_state(NoDFA, start_nfa_states(nfas), nfas)
       IN  /\ dfa' = [d EXCEPT !.start_state = NoDFA.next_state_id]
           /\ worklist' = <<NoDFA.next_state_id>>
    /\ processed' = {}
    /\ pc' = "dfa_loop"
    /\ UNCHANGED <<spec_content, spec, error, nfas, lexer,
                   input, pos, line, column, tokens, errs, steps, files, first_run>>

\* DFA::from_nfas, lines 47-82: one iteration of the worklist loop
DFALoop ==
    /\ pc = "dfa_loop"
    /\ Len(worklist) > 0
    /\ LET current_state_id == worklist[Len(worklist)]
           rest == SubSeq(worklist, 1, Len(worklist) - 1)
       IN  IF current_state_id \in processed
           THEN /\ worklist' = rest
                /\ UNCHANGED <<dfa, processed>>
           ELSE LET done == processed \cup {current_state_id}
                    st == alphabet_loop([dfa |-> dfa, worklist |-> rest],
                                        current_state_id, dfa.states[current_state_id],
                                        nfas, done, 1, Len(Alphabet))
                IN  /\ processed' = done
                    /\ dfa' = st.dfa
                    /\ worklist' = st.worklist
    /\ UNCHANGED <<pc, spec_content, spec, error, nfas, lexer,
                   input, pos, line, column, tokens, errs, steps, files, first_run>>

\* generate_lexer, lines 23-41: the worklist is empty; emit the source,
\* write it to lexer.rs (the write succeeds or fails) and compile it
EmitLexer ==
    /\ pc = "dfa_loop"
    /\ Len(worklist) = 0
    /\ \E written \in BOOLEAN :
          LET code == generate_lexer_code(spec, dfa)
          IN  IF ~written
              THEN /\ error' = "Error generating lexer: Error writing lexer.rs: "
                   /\ pc' = "failed"
                   /\ UNCHANGED <<lexer, files>>
              ELSE IF code = None
              THEN /\ error' = "Error generating lexer: Compilation failed: "
                   /\ pc' = "failed"
                   /\ files' = files \cup {"lexer.rs"}
                   /\ lexer' = lexer
              ELSE /\ lexer' = code[1]
                   /\ files' = files \cup {"lexer.rs", "lexer"}
                   /\ pc' = "ready"
                   /\ error' = error
    /\ UNCHANGED <<spec_content, spec, nfas, dfa, worklist, processed,
                   input, pos, line, column, tokens, errs, steps, first_run>>

\* lexer.rs, lines 28-33: tokenize is entered with the text of the input file
StartScan ==
    /\ pc = "ready"
    /\ \E text \in Inputs : input' = text
    /\ tokens' = << >>
    /\ line' = 1
    /\ column' = 1
    /\ pos' = 0
    /\ pc' = "scan"
    /\ UNCHANGED <<spec_content, spec, error, nfas, dfa, worklist, processed, lexer,
                   errs, steps, files, first_run>>

\* lexer.rs, lines 193-236: one iteration of the scan loop
ScanStep ==
    /\ pc = "scan"
    /\ pos < Len(input)
    /\ \E m \in {longest_match(Slice(input, pos, Len(input)), lexer)},
          r \in {scan_iteration(lexer, input, pos, line, column, tokens, errs)} :
           /\ pos' = r.pos
           /\ line' = r.line
           /\ column' = r.column
           /\ tokens' = r.tokens
           /\ errs' = r.errs
           /\ steps' = Append(steps,
                 [pos |-> pos, line |-> line, column |-> column,
                  tokens |-> tokens, errs |-> errs,
                  length |-> m[1], rule |-> m[2], after |-> r])
    /\ UNCHANGED <<pc, spec_content, spec, error, nfas, dfa, worklist, processed,
                   lexer, input, files, first_run>>

\* lexer.rs, lines 238-240: the loop has ended; the EOF line
EmitEOF ==
    /\ pc = "scan"
    /\ pos >= Len(input)
    /\ tokens' = Append(tokens, eof_token(line, column))
    /\ pc' = "done"
    /\ UNCHANGED <<spec_content, spec, error, nfas, dfa, worklist, processed, lexer,
                   input, pos, line, column, errs, steps, files, first_run>>

\* the emitted scanner is run once more on the same input file
Rescan ==
    /\ pc = "done"
    /\ first_run = None
    /\ first_run' = Some([tokens |-> tokens, errs |-> errs])
    /\ tokens' = << >>
    /\ errs' = << >>
    /\ steps' = << >>
    /\ line' = 1
    /\ column' = 1
    /\ pos' = 0
    /\ pc' = "scan"
    /\ UNCHANGED <<spec_content, spec, error, nfas, dfa, worklist, processed, lexer,
                   input, files>>

\* the texts over the characters chars of at most n characters
RECURSIVE StringsOver(_, _)
StringsOver(chars, n) ==
    IF n = 0 THEN {""}
    ELSE LET shorter == StringsOver(chars, n - 1)
         IN  shorter \cup {s \o c : s \in shorter, c \in chars}

\* the characters of the enumerated regex texts, and the texts
RegexChars == {"a", "|", "(", ")", "*", "\\"}
RegexTexts == StringsOver(RegexChars, MaxRegexLen)

\* the characters of the enumerated class bodies, and the class texts: a
\* body closed by ']', negated and closed, and left open
ClassChars == {"a", "c", "-"}
ClassBodies == StringsOver(ClassChars, MaxClassLen)
ClassTexts ==
    {"[" \o b \o "]" : b \in ClassBodies}
    \cup {"[^" \o b \o "]" : b \in ClassBodies}
    \cup {"[" \o b : b \in ClassBodies}
    \cup {"[a-z-9]", "[a^c]", "[abc", "a[", "[a]|"}

\* class texts with backslashes and brackets between the brackets
EscapeClassChars == {"\\", "t", "n", "]", "-"}
EscapeClassTexts ==
    {"[" \o b \o "]" : b \in StringsOver(EscapeClassChars, MaxEscapeLen)}
    \cup {"[^" \o b \o "]" : b \in StringsOver(EscapeClassChars, MaxEscapeLen)}
    \cup {"[\\t\\n]"}

\* the Spec values generate_lexer is called with directly: one rule
RuleLists ==
    {[rules |-> <<[regex |-> t, action |-> Token("T", TRUE)]>>] :
        t \in RegexTexts \cup ClassTexts \cup EscapeClassTexts}

\* the lines of the enumerated specification files: well-formed rules,
\* blank lines, and lines with each of the defects parse_rule and
\* parse_action tell apart
SpecLines ==
    { "a A true", "b (SKIP)", "c (ERR) \"m\"", "", "  ",
      "ab",
      "a (ERR) m", "a (ERR) \"m", "a (ERR) m\"", "a (ERR)", "a (ERR) \"",
      "a A", "a A true x",
      "a A yes", "a A True" }

\* the texts of at most n of these lines, each but the last ended by '\n'
RECURSIVE FileTexts(_)
FileTexts(n) ==
    IF n = 1 THEN SpecLines
    ELSE LET shorter == FileTexts(n - 1)
         IN  shorter \cup {t \o "\n" \o l : t \in shorter, l \in SpecLines}

\* a specification whose token name does not survive being pasted into the
\* emitted source
UncompilableSpec == "a A\"B true"

\* gen on a specification file, or generate_lexer called on a Spec value
\* (generate_lexer is public)
GenInit ==
    /\ \/ /\ pc = "parse"
          /\ spec_content \in FileTexts(MaxSpecLines) \cup {UncompilableSpec}
          /\ spec = [rules |-> << >>]
       \/ /\ pc = "nfas"
          /\ spec_content = ""
          /\ spec \in RuleLists
    /\ error = ""
    /\ nfas = << >>
    /\ dfa = NoDFA
    /\ worklist = << >>
    /\ processed = {}
    /\ lexer = NoLexer
    /\ input = ""
    /\ pos = 0
    /\ line = 1
    /\ column = 1
    /\ tokens = << >>
    /\ errs = << >>
    /\ steps = << >>
    /\ files = {}
    /\ first_run = None

GenNext ==
    \/ ParseSpec
    \/ BuildNFAs
    \/ DFAStart
    \/ DFALoop
    \/ EmitLexer

Next ==
    \/ ParseSpec
    \/ BuildNFAs
    \/ DFAStart
    \/ DFALoop
    \/ EmitLexer
    \/ StartScan
    \/ ScanStep
    \/ EmitEOF
    \/ Rescan

Spec == Init /\ [][Next]_vars

\* the programs as running processes: the scan loop takes its next
\* iteration while there is input left, and then writes the EOF line
FairSpec == Init /\ [][Next]_vars /\ WF_vars(ScanStep) /\ WF_vars(EmitEOF)

\* DFA::from_nfas called on the NFAs of a specification: the state in
\* which generate_lexer reaches line 21
WorklistInit ==
    /\ pc = "dfa_start"
    /\ spec_content \in
          {t \in SpecTexts :
              /\ parse_spec(t).kind = "Ok"
              /\ build_nfas(parse_spec(t).value.rules, 1, << >>).kind = "Ok"}
    /\ spec = parse_spec(spec_content).value
    /\ nfas = build_nfas(spec.rules, 1, << >>).value
    /\ error = ""
    /\ dfa = NoDFA
    /\ worklist = << >>
    /\ processed = {}
    /\ lexer = NoLexer
    /\ input = ""
    /\ pos = 0
    /\ line = 1
    /\ column = 1
    /\ tokens = << >>
    /\ errs = << >>
    /\ steps = << >>
    /\ files = {}
    /\ first_run = None

WorklistNext ==
    \/ DFAStart
    \/ DFALoop

\* from_nfas as a running call: while the worklist is not empty the next
\* iteration of the loop is taken
FairWorklistSpec == WorklistInit /\ [][WorklistNext]_vars /\ WF_vars(DFALoop)

\* the generator alone, on the enumerated files and rule lists
GenSpec == GenInit /\ [][GenNext]_vars

-----------------------------------------------------------------------------
(* The language of a regular expression, and the coordinates of a          *)
(* position, stated without the automata.                                  *)

\* the characters of the printable range 0x20..0x7E
IsPrintable(c) == \E i \in 1..Len(Alphabet) : Alphabet[i] = c

\* s is in the language of the RegexNode regex
RECURSIVE Matches(_, _)
Matches(regex, s) ==
    CASE regex.type = "Char" -> s = regex.ch
      [] regex.type = "Dot" -> Len(s) = 1 /\ IsPrintable(s) /\ s # "\n"
      [] regex.type = "CharClass" ->
            Len(s) = 1 /\ \E i \in 1..Len(regex.chars) : regex.chars[i] = s
      [] regex.type = "NegatedCharClass" ->
            /\ Len(s) = 1 /\ IsPrintable(s) /\ s # "\n"
            /\ \A i \in 1..Len(regex.chars) : regex.chars[i] # s
      [] regex.type = "Concatenation" ->
            \E k \in 0..Len(s) :
                /\ Matches(regex.left, Slice(s, 0, k))
                /\ Matches(regex.right, Slice(s, k, Len(s)))
      [] regex.type = "Alternation" -> Matches(regex.left, s) \/ Matches(regex.right, s)
      [] regex.type = "Optional" -> s = "" \/ Matches(regex.inner, s)
      [] regex.type = "Kleene" ->
            \/ s = ""
            \/ \E k \in 1..Len(s) :
                /\ Matches(regex.inner, Slice(s, 0, k))
                /\ Matches(regex, Slice(s, k, Len(s)))
      [] regex.type = "Plus" ->
            \E k \in 0..Len(s) :
                /\ Matches(regex.inner, Slice(s, 0, k))
                /\ Matches(Kleene(regex.inner), Slice(s, k, Len(s)))

\* rule k of the parsed specification (k from 1) matches s: its regex is
\* the tree parse_regex returns for the rule's text
RuleMatches(k, s) == Matches(parse_regex(spec.rules[k].regex).value, s)

\* the rules (from 1) that match s
MatchingRules(s) == {k \in 1..Len(spec.rules) : RuleMatches(k, s)}

Least(S) == CHOOSE x \in S : \A y \in S : x <= y
Greatest(S) == CHOOSE x \in S : \A y \in S : y <= x

\* the positions of the '\n' characters among input[0..p)
NewlinesBefore(p) == {i \in 0..(p - 1) : At(input, i) = "\n"}

\* 1 + the number of '\n' among input[0..p)
LineOf(p) == 1 + Cardinality(NewlinesBefore(p))

\* 1 + the number of characters after the last '\n' of input[0..p)
ColumnOf(p) == IF NewlinesBefore(p) = {} THEN p + 1 ELSE p - Greatest(NewlinesBefore(p))

\* the text " [line,column]" that ends a token line
Coordinates(ln, col) == " [" \o ToString(ln) \o "," \o ToString(col) \o "]"

\* the token line of an Emit rule for a lexeme at (ln, col)
TokenLine(action, lexeme, ln, col) ==
    IF action.keep_lexeme
    THEN action.name \o ":" \o lexeme \o Coordinates(ln, col)
    ELSE action.name \o Coordinates(ln, col)

\* the scan loop has run at least once; the record of its last iteration
Stepped == Len(steps) > 0
LastStep == steps[Len(steps)]

\* the text the iteration st chose, and the text it had left
Lexeme(st) == Slice(input, st.pos, st.pos + st.length)
Remaining(st) == Slice(input, st.pos, Len(input))

\* the action of the rule the iteration st selected
SelectedAction(st) == spec.rules[st.rule[1] + 1].action

\* what the iteration st appended to the tokens and to the error channel
Tokens(st) == SubSeq(st.after.tokens, Len(st.tokens) + 1, Len(st.after.tokens))
Diagnostics(st) == SubSeq(st.after.errs, Len(st.errs) + 1, Len(st.after.errs))
AppendsOnly(st) ==
    /\ Len(st.after.tokens) >= Len(st.tokens)
    /\ SubSeq(st.after.tokens, 1, Len(st.tokens)) = st.tokens
    /\ Len(st.after.errs) >= Len(st.errs)
    /\ SubSeq(st.after.errs, 1, Len(st.errs)) = st.errs

-----------------------------------------------------------------------------
(* Properties of the scanner.                                              *)

\* C1 (maximal munch, as the specification states it): at every scan step
\* that starts at pos and chooses a match of length L, no rule's regular
\* expression matches a prefix of input[pos..] longer than L, whatever the
\* rules are, those written with the escapes \t and \n included.
\* The scanner's tables have no transition on '\n': with the rules `a` and
\* `a\n`, the step at the start of the input "a\n" chooses L = 1 although
\* the second rule matches both characters.
C1_MaximalMunch ==
    Stepped =>
        \A k \in 1..Len(spec.rules) :
            \A n \in (LastStep.length + 1)..Len(Remaining(LastStep)) :
                ~RuleMatches(k, Slice(Remaining(LastStep), 0, n))

C4_NoMatchProgress ==
    Stepped =>
        LET st == LastStep
            rest == Remaining(st)
        IN  (\A k \in 1..Len(spec.rules) : \A n \in 1..Len(rest) :
                    ~RuleMatches(k, Slice(rest, 0, n))) =>
                /\ st.after.tokens = st.tokens
                /\ st.after.errs = st.errs
                /\ st.after.pos = st.pos + 1
                /\ <<st.after.line, st.after.column>> =
                      IF At(input, st.pos) = "\n"
                      THEN <<st.line + 1, 1>>
                      ELSE <<st.line, st.column + 1>>

\* a step past the first line of the input at which no rule of a non-empty
\* rule list matches anything
C4_Witness ==
    /\ Stepped
    /\ Len(spec.rules) > 0
    /\ LastStep.line > 1
    /\ At(input, LastStep.pos) = "\n"
    /\ \A k \in 1..Len(spec.rules) : \A n \in 1..Len(Remaining(LastStep)) :
            ~RuleMatches(k, Slice(Remaining(LastStep), 0, n))

\* C5 (zero-length guard, as the specification states it): when the start
\* state is accepting and the longest match at pos has length 0, the step
\* advances by one character and still performs the selected rule's action:
\* an Emit rule appends a token of length zero at that position.
\* The scan loop takes its no-match branch whenever the length is 0, so
\* nothing is appended: with the rule `a* AS true` the step at the `?` of the
\* input "?" appends no token.
C5_ZeroLengthToken ==
    Stepped =>
        LET st == LastStep
        IN  (lexer.start \in DOMAIN lexer.accepting_states /\ st.length = 0) =>
                /\ st.after.pos = st.pos + 1
                /\ st.rule # None
                /\ SelectedAction(st).type = "Token" =>
                      st.after.tokens =
                          Append(st.tokens, TokenLine(SelectedAction(st), "", st.line, st.column))

\* C6 (line/column arithmetic): in every state of the scan loop, line is 1 +
\* the number of '\n' among input[0..pos) and column is 1 + the number of
\* characters after the last '\n' of input[0..pos); every token line a step
\* appends carries the line and column of the first character of its lexeme.
C6_LineColumn ==
    /\ pc \in {"scan", "done"} => (line = LineOf(pos) /\ column = ColumnOf(pos))
    /\ (Stepped /\ Len(Tokens(LastStep)) > 0) =>
          \A i \in 1..Len(Tokens(LastStep)) :
              ends_with(Tokens(LastStep)[i],
                        Coordinates(LineOf(LastStep.pos), ColumnOf(LastStep.pos)))

\* a step that appended a token for a lexeme that starts after the first
\* character of the second line
C6_Witness ==
    /\ pc = "scan"
    /\ Stepped
    /\ Len(Tokens(LastStep)) = 1
    /\ LineOf(LastStep.pos) = 2
    /\ ColumnOf(LastStep.pos) = 2
    /\ column = 3

\* a token line is the EOF line
IsEOF(t) == starts_with(t, "EOF [")

\* C7 (EOF): for every input, the empty one included, the token sequence of
\* the finished scan ends with one EOF line, no other token line is an EOF
\* line (none before the scan has finished, and the run ends with it: all
\* that follows is another run, which starts from an empty token sequence),
\* and the EOF line carries the line and column reached
\* after all characters: EOF [1,1] for the empty input.  (No rule of the
\* specifications of the model is named EOF.)
C7_EOF ==
    /\ pc = "scan" => \A i \in 1..Len(tokens) : ~IsEOF(tokens[i])
    /\ pc = "done" =>
          /\ pos = Len(input)
          /\ Len(tokens) >= 1
          /\ tokens[Len(tokens)] =
                "EOF" \o Coordinates(LineOf(Len(input)), ColumnOf(Len(input)))
          /\ \A i \in 1..(Len(tokens) - 1) : ~IsEOF(tokens[i])
          /\ input = "" => tokens = <<"EOF [1,1]">>

\* a finished scan of an input of two lines with tokens before the EOF line
C7_Witness ==
    /\ pc = "done"
    /\ Len(tokens) > 2
    /\ LineOf(Len(input)) = 2
    /\ ColumnOf(Len(input)) > 1

\* C8 (action dispatch): on every match of length L > 0 with selected rule R,
\* an Emit rule appends exactly one token line with R's name (and the lexeme
\* iff keep_lexeme) and writes no diagnostic, a Skip rule appends and writes
\* nothing, an Error rule writes its message to the error channel and appends
\* nothing; in all three cases pos advances by L and the scan goes on: it
\* ends only at the end of the input.
C8_ActionDispatch ==
    /\ (Stepped /\ LastStep.length > 0) =>
          LET st == LastStep
          IN  /\ st.rule # None
              /\ st.after.pos = st.pos + st.length
              /\ pc \in {"scan", "done"}
              /\ CASE SelectedAction(st).type = "Token" ->
                        /\ st.after.tokens =
                              Append(st.tokens,
                                     TokenLine(SelectedAction(st), Lexeme(st),
                                               st.line, st.column))
                        /\ st.after.errs = st.errs
                   [] SelectedAction(st).type = "Skip" ->
                        /\ st.after.tokens = st.tokens
                        /\ st.after.errs = st.errs
                   [] SelectedAction(st).type = "Error" ->
                        /\ st.after.tokens = st.tokens
                        /\ st.after.errs = Append(st.errs, SelectedAction(st).message)
    /\ pc = "done" => pos = Len(input)

\* a scan in which a match of each of the three kinds of rule has happened,
\* the Error rule's not the last one
C8_Witness ==
    /\ pc = "done"
    /\ \E i \in 1..Len(steps) : \E j \in 1..Len(steps) : \E k \in 1..Len(steps) :
          /\ steps[i].length > 0 /\ SelectedAction(steps[i]).type = "Token"
          /\ steps[j].length > 0 /\ SelectedAction(steps[j]).type = "Skip"
          /\ steps[k].length > 0 /\ SelectedAction(steps[k]).type = "Error"
          /\ k < Len(steps)
          /\ Len(steps[k].after.errs) = Len(steps[k].errs) + 1

\* C9 (ordering): every iteration starts where the one before it ended and
\* ends further on, so the start positions of the iterations, and of the
\* tokens they append, strictly increase; an iteration only appends, and
\* what it appends is at most one thing: one token line, or one diagnostic,
\* or nothing (a skip or a no-match advance).
C9_Ordering ==
    /\ \A i \in 1..Len(steps) :
          /\ steps[i].after.pos > steps[i].pos
          /\ AppendsOnly(steps[i])
          /\ Len(Tokens(steps[i])) + Len(Diagnostics(steps[i])) <= 1
          /\ i > 1 =>
                /\ steps[i].pos = steps[i - 1].after.pos
                /\ steps[i].tokens = steps[i - 1].after.tokens
                /\ steps[i].errs = steps[i - 1].after.errs
    /\ (pc = "scan" /\ Stepped) =>
          /\ tokens = LastStep.after.tokens
          /\ errs = LastStep.after.errs
          /\ pos = LastStep.after.pos

\* a scan whose last two iterations each appended a token, the later one for
\* a lexeme of two characters
C9_Witness ==
    /\ pc = "scan"
    /\ Len(steps) >= 2
    /\ Len(Tokens(steps[Len(steps) - 1])) = 1
    /\ Len(Tokens(LastStep)) = 1
    /\ LastStep.length = 2

\* the literal of rule i of a literal-only specification is the rule's text
Literal(i) == spec.rules[i].regex

\* no literal is a prefix of the literal of another rule
PrefixFree ==
    \A i \in 1..Len(spec.rules) : \A j \in 1..Len(spec.rules) :
        i # j => ~starts_with(Literal(j), Literal(i))

\* the sequences of rule indices whose literals could make up the input
IndexSequences == UNION {[1..n -> 1..Len(spec.rules)] : n \in 0..Len(input)}

\* the concatenation of the literals of the rules idx[from..]
RECURSIVE Concat(_, _)
Concat(idx, from) ==
    IF from > Len(idx) THEN "" ELSE Literal(idx[from]) \o Concat(idx, from + 1)

\* the token lines of the rules idx[from..], the first lexeme at column col,
\* followed by the EOF line
RECURSIVE ExpectedTokens(_, _, _)
ExpectedTokens(idx, from, col) ==
    IF from > Len(idx) THEN <<"EOF" \o Coordinates(1, col)>>
    ELSE <<TokenLine(spec.rules[idx[from]].action, Literal(idx[from]), 1, col)>>
         \o ExpectedTokens(idx, from + 1, col + Len(Literal(idx[from])))

-----------------------------------------------------------------------------
(* Properties of the regex parser, on the rule lists generate_lexer is     *)
(* given.  The defects of a regex text are read off the text itself.       *)

\* generate_lexer has gone through the one rule of the rule list
RegexParsed == pc # "nfas" /\ spec_content = "" /\ Len(spec.rules) = 1

\* the text of that rule, and what parse_regex returns for it
RegexText == spec.rules[1].regex
RegexResult == parse_regex(RegexText)

\* the text is one of the enumerated texts without a character class
IsPlainText(t) == \A i \in 0..(Len(t) - 1) : At(t, i) \in RegexChars

\* the items of a text without classes, from index i on: an escape pair is
\* the operand "E", a `\` that ends the text stays "\\", every other
\* character is itself
RECURSIVE Items(_, _)
Items(t, i) ==
    IF i >= Len(t) THEN << >>
    ELSE IF At(t, i) = "\\"
    THEN IF i + 1 < Len(t) THEN <<"E">> \o Items(t, i + 2) ELSE <<"\\">>
    ELSE <<At(t, i)>> \o Items(t, i + 1)

\* two items that follow one another
Adjacent(its, x, y) == \E i \in 1..(Len(its) - 1) : its[i] = x /\ its[i + 1] = y

\* an alternative, or the content of a group, with nothing in it
HasEmptyAlternative(its) ==
    /\ Len(its) > 0
    /\ \/ its[1] = "|"
       \/ its[Len(its)] = "|"
       \/ Adjacent(its, "|", "|")
       \/ Adjacent(its, "(", "|")
       \/ Adjacent(its, "|", ")")
       \/ Adjacent(its, "(", ")")

\* a postfix operator where an operand has to start
PostfixAtOperand(its) ==
    /\ Len(its) > 0
    /\ \E op \in {"*", "+", "?"} :
          its[1] = op \/ Adjacent(its, "|", op) \/ Adjacent(its, "(", op)

\* the text ends with a `\` that escapes nothing
EndsWithLoneBackslash(its) == Len(its) > 0 /\ its[Len(its)] = "\\"

\* the parentheses of its[i..], depth open so far: <<the number of `(`
\* left open at the end, whether a `)` came with nothing open>>
RECURSIVE Parens(_, _, _, _)
Parens(its, i, depth, stray) ==
    IF i > Len(its) THEN <<depth, stray>>
    ELSE IF its[i] = "(" THEN Parens(its, i + 1, depth + 1, stray)
    ELSE IF its[i] = ")"
    THEN IF depth = 0 THEN Parens(its, i + 1, 0, TRUE)
         ELSE Parens(its, i + 1, depth - 1, stray)
    ELSE Parens(its, i + 1, depth, stray)

HasUnclosedParen(its) == Parens(its, 1, 0, FALSE)[1] > 0
HasUnmatchedClose(its) == Parens(its, 1, 0, FALSE)[2]

\* C12 (unmatched `)`, as the specification states it): parse_regex returns
\* an error for every regex text that contains a `)` with no matching `(`,
\* also when the `)` follows a well-formed prefix (`a)`, `a)b`); it never
\* returns a tree for only a prefix of the text.
\* parse_regex returns what parse_alternation returns and never looks at
\* what is left: for `a)` it is Ok(Char('a')), and generate_lexer goes on
\* with it.
C12_UnmatchedCloseRejected ==
    (RegexParsed /\ IsPlainText(RegexText) /\ HasUnmatchedClose(Items(RegexText, 0))) =>
        /\ RegexResult.kind = "Err"
        /\ pc = "failed"

\* the text t, read from index i on (inside a class or not), ends inside a
\* character class: a `[` was not closed by a `]`.  For texts without `\`.
RECURSIVE EndsInsideClass(_, _, _)
EndsInsideClass(t, i, inside) ==
    IF i >= Len(t) THEN inside
    ELSE IF inside THEN EndsInsideClass(t, i + 1, At(t, i) # "]")
    ELSE EndsInsideClass(t, i + 1, At(t, i) = "[")

HasNoBackslash(t) == \A i \in 0..(Len(t) - 1) : At(t, i) # "\\"

\* C13 (unterminated class, as the specification states it): parse_regex
\* returns an error for every regex text in which a class opened by `[` is
\* not closed by `]` before the end of the text (`[abc`).
\* The loop of parse_char_class ends when the text ends, and the class read
\* so far is returned: `[abc` is Ok(CharClass(a, b, c)).
C13_UnterminatedClassRejected ==
    (RegexParsed /\ HasNoBackslash(RegexText) /\ EndsInsideClass(RegexText, 0, FALSE)) =>
        /\ RegexResult.kind = "Err"
        /\ pc = "failed"

\* C14 (the other failure conditions, as the specification states them):
\* parse_regex returns an error, and no tree, for every regex text that is
\* empty, has an empty alternative, starts an operand position with a
\* postfix operator, ends with a lone `\`, or has a `(` with no closing `)`.
\* For a text in which such a defect comes after a `)` that closes nothing
\* (`a)|`, `a)(a`) the parser stops at the `)` and returns the tree of
\* the prefix.
C14_MalformedRejected ==
    (/\ RegexParsed
     /\ IsPlainText(RegexText)
     /\ LET its == Items(RegexText, 0)
        IN  \/ RegexText = ""
            \/ HasEmptyAlternative(its)
            \/ PostfixAtOperand(its)
            \/ EndsWithLoneBackslash(its)
            \/ HasUnclosedParen(its)) =>
        /\ RegexResult.kind = "Err"
        /\ pc = "failed"
        /\ nfas = << >>

\* the part of C14 that the parser does meet: a text of the kinds of C14 in
\* which no `)` comes with nothing open is rejected
MalformedRejectedWithoutStrayClose ==
    (/\ RegexParsed
     /\ IsPlainText(RegexText)
     /\ LET its == Items(RegexText, 0)
        IN  /\ ~HasUnmatchedClose(its)
            /\ \/ RegexText = ""
               \/ HasEmptyAlternative(its)
               \/ PostfixAtOperand(its)
               \/ EndsWithLoneBackslash(its)
               \/ HasUnclosedParen(its)) =>
        /\ RegexResult.kind = "Err"
        /\ pc = "failed"
        /\ nfas = << >>

\* the text is one character class and nothing else: `[`, a body without
\* brackets and `\`, `]`
IsClassText(t) ==
    /\ Len(t) >= 2
    /\ At(t, 0) = "["
    /\ At(t, Len(t) - 1) = "]"
    /\ \A i \in 1..(Len(t) - 2) : At(t, i) \notin {"[", "]", "\\"}

\* the class text is negated; its items are the characters from ItemsFrom on
IsNegated(t) == Len(t) >= 3 /\ At(t, 1) = "^"
ItemsFrom(t) == IF IsNegated(t) THEN 2 ELSE 1

\* the closed interval of characters from lo to hi
Interval(lo, hi) == {CharTable[b] : b \in Ord(lo)..Ord(hi)}

\* the set a class text denotes, read from index i on: an item sequence
\* x-y is the interval from x to y, every other item is itself; a `-` with
\* no item after it (the `]` follows) is the literal `-`
RECURSIVE ClassSet(_, _)
ClassSet(t, i) ==
    IF i >= Len(t) - 1 THEN {}
    ELSE IF i + 2 < Len(t) - 1 /\ At(t, i + 1) = "-"
    THEN Interval(At(t, i), At(t, i + 2)) \cup ClassSet(t, i + 3)
    ELSE {At(t, i)} \cup ClassSet(t, i + 1)

\* C18 (character-class ranges, as the specification states them): for every
\* class text, an item sequence a-b contributes exactly the closed interval
\* from a to b, every other item exactly itself, a `-` that is the first or
\* the last item the literal `-`; no item written in the class is lost.
\* A `-` after a range takes the range's last character back as the start
\* of a new range: for `[a-c-a]` the class is {a, b}, without the c, the `-`
\* and the last a; for `[a-z-9]` it is a..y.
C18_ClassRanges ==
    (RegexParsed /\ IsClassText(RegexText)) =>
        /\ RegexResult.kind = "Ok"
        /\ RegexResult.value.type =
              IF IsNegated(RegexText) THEN "NegatedCharClass" ELSE "CharClass"
        /\ {RegexResult.value.chars[i] : i \in 1..Len(RegexResult.value.chars)}
              = ClassSet(RegexText, ItemsFrom(RegexText))

-----------------------------------------------------------------------------
(* Properties of the generator on specification files.                     *)

\* the action part of a rule line: what follows its first space
ActionPart(l) == trim(Slice(l, find_char(l, " ", 0) + 1, Len(l)))

\* the message part of an (ERR) action
MessagePart(l) == trim(Slice(ActionPart(l), 5, Len(ActionPart(l))))

\* a non-blank line (trimmed) is malformed: it has no space, or its (ERR)
\* action has no message enclosed in a pair of double quotes, or its token
\* action is not exactly NAME and BOOL with BOOL true or false
IsMalformed(l) ==
    IF find_char(l, " ", 0) >= Len(l) THEN TRUE
    ELSE IF ActionPart(l) = "(SKIP)" THEN FALSE
    ELSE IF starts_with(ActionPart(l), "(ERR)")
    THEN ~(/\ Len(MessagePart(l)) >= 2
           /\ starts_with(MessagePart(l), "\"")
           /\ ends_with(MessagePart(l), "\""))
    ELSE LET words == split_whitespace(ActionPart(l))
         IN  Len(words) # 2 \/ words[2] \notin {"true", "false"}

\* the 1-based numbers of the malformed lines of the file text
MalformedLines(content) ==
    {i \in 1..Len(lines(content)) :
        Len(trim(lines(content)[i])) > 0 /\ IsMalformed(trim(lines(content)[i]))}

\* C15 (specification-file errors, as the specification states them): for
\* every specification text with a malformed non-blank line, parse_spec
\* returns an error value that names the 1-based number of the first such
\* line (blank lines counted) and returns no rules; it never aborts in any
\* other way.
\* For the action `(ERR) "`, whose message part is one double quote, the
\* slice err_part[1..0] panics: the process aborts with no error value.
C15_MalformedLineReported ==
    (pc # "parse" /\ MalformedLines(spec_content) # {}) =>
        /\ pc = "failed"
        /\ starts_with(error,
              "Error parsing spec: Line "
                  \o ToString(Least(MalformedLines(spec_content))) \o ":")
        /\ spec.rules = << >>

\* the part of C15 that parse_spec does meet: unless the first malformed
\* line is an (ERR) action whose message part is a single double quote, the
\* error names that line and no rules are returned
MalformedLineReportedUnlessLoneQuote ==
    (/\ pc # "parse"
     /\ MalformedLines(spec_content) # {}
     /\ LET l == trim(lines(spec_content)[Least(MalformedLines(spec_content))])
        IN  ~(starts_with(ActionPart(l), "(ERR)") /\ MessagePart(l) = "\"")) =>
        /\ pc = "failed"
        /\ starts_with(error,
              "Error parsing spec: Line "
                  \o ToString(Least(MalformedLines(spec_content))) \o ":")
        /\ spec.rules = << >>

\* generate_lexer has returned an error
GenerateFailed == pc = "failed" /\ starts_with(error, "Error generating lexer: ")

\* C16 (no partial artifact, as the specification states it): whenever
\* generate_lexer returns an error, that call has written neither lexer.rs
\* nor the lexer binary.
\* A token name holding a double quote is pasted unescaped into the emitted
\* source; rustc rejects it after lexer.rs has been written, and the file
\* is left behind.
C16_NoPartialArtifact == GenerateFailed => files = {}

\* the part of C16 that generate_lexer does meet: the lexer binary is never
\* left behind by a failed call, and a call that fails before compiling
\* leaves nothing
NoBinaryWhenGenerateFailed ==
    GenerateFailed =>
        /\ "lexer" \notin files
        /\ ~starts_with(error, "Error generating lexer: Compilation failed") =>
              files = {}

-----------------------------------------------------------------------------
(* Properties of the subset construction.                                  *)

\* c is a character with a code in 0x20..0x7E
InAlphabetRange(c) == \E b \in 32..126 : Chr(b) = c

\* C17 (alphabet): every transition of the DFA under construction, and of
\* the emitted scanner, is labelled with a character in 0x20..0x7E; and at
\* every scan position whose character is outside that range and where the
\* start state is not accepting, the step appends no token, writes no
\* diagnostic and advances pos by exactly one character.
C17_Alphabet ==
    /\ \A k \in DOMAIN dfa.transitions : InAlphabetRange(k[2])
    /\ \A k \in DOMAIN lexer.transitions : InAlphabetRange(k[2])
    /\ Stepped =>
          LET st == LastStep
          IN  (/\ ~InAlphabetRange(At(input, st.pos))
               /\ lexer.start \notin DOMAIN lexer.accepting_states) =>
                  /\ st.length = 0
                  /\ st.after.tokens = st.tokens
                  /\ st.after.errs = st.errs
                  /\ st.after.pos = st.pos + 1

\* a step at a tab, after a token was produced, by a scanner that has
\* transitions and whose start state is not accepting
C17_Witness ==
    /\ Stepped
    /\ At(input, LastStep.pos) = "\t"
    /\ Len(LastStep.tokens) > 0
    /\ DOMAIN lexer.transitions # {}
    /\ lexer.start \notin DOMAIN lexer.accepting_states

\* the states of nfa reachable after consuming s from its start state,
\* epsilon moves included
RECURSIVE NfaAfter(_, _)
NfaAfter(nfa, s) ==
    IF Len(s) = 0 THEN epsilon_closure(nfa, {nfa.start_state})
    ELSE epsilon_closure(nfa,
            move_on_char(nfa, NfaAfter(nfa, Slice(s, 0, Len(s) - 1)),
                         At(s, Len(s) - 1)))

\* the DFA state reached from the start state on s, None when a transition
\* is missing on the way
RECURSIVE DfaAfter(_, _)
DfaAfter(d, s) ==
    IF Len(s) = 0 THEN Some(d.start_state)
    ELSE LET before == DfaAfter(d, Slice(s, 0, Len(s) - 1))
         IN  IF before = None THEN None
             ELSE IF <<before[1], At(s, Len(s) - 1)>> \in DOMAIN d.transitions
             THEN Some(d.transitions[<<before[1], At(s, Len(s) - 1)>>])
             ELSE None

\* the set a DFA state records for an nfa index: empty when it has no entry
Recorded(state, nfa_index) ==
    IF nfa_index \in DOMAIN state.nfa_states THEN state.nfa_states[nfa_index]
    ELSE {}

\* the DFA built from nfas is faithful to them on the string s
FaithfulOn(s) ==
    LET reached == DfaAfter(dfa, s)
    IN  IF reached = None
        THEN \A k \in 1..Len(nfas) : NfaAfter(nfas[k].nfa, s) = {}
        ELSE \A k \in 1..Len(nfas) :
                Recorded(dfa.states[reached[1]], k - 1) = NfaAfter(nfas[k].nfa, s)

\* C19 (subset-construction faithfulness, as the specification states it):
\* for the DFA built from a list of NFAs and every input string s, the DFA
\* state reached from the start state on s records for each rule index
\* exactly the states of that rule's NFA reachable after consuming s, and
\* there is no such DFA state exactly when every one of these sets is empty.
\* The construction only follows the characters 0x20..0x7E: after a
\* newline the NFA of a rule written with the escape \n is in its accept
\* state while the DFA has no state.
C19_SubsetFaithful ==
    pc = "ready" => \A s \in Strings(MaxInputLen) : FaithfulOn(s)

\* the part of C19 that from_nfas does meet: the DFA is faithful on every
\* string of characters in 0x20..0x7E
SubsetFaithfulOnAlphabet ==
    pc = "ready" =>
        \A s \in Strings(MaxInputLen) :
            (\A i \in 0..(Len(s) - 1) : InAlphabetRange(At(s, i))) => FaithfulOn(s)

\* the rule indices whose NFA has an accept state in the set the DFA state
\* records for it
AcceptingRules(state) ==
    {nfas[k].index : k \in {j \in 1..Len(nfas) :
        Recorded(state, j - 1) \cap nfas[j].nfa.accept_states # {}}}

\* C20 (acceptance labelling): in the DFA, while it is built and after, a
\* state is accepting iff for some rule index i its recorded set for i
\* contains an accept state of NFA i, and its winning rule is the least
\* such i.
C20_AcceptanceLabelling ==
    \A id \in DOMAIN dfa.states :
        /\ dfa.states[id].is_accepting = (AcceptingRules(dfa.states[id]) # {})
        /\ dfa.states[id].rule_index =
              IF AcceptingRules(dfa.states[id]) = {} THEN None
              ELSE Some(Least(AcceptingRules(dfa.states[id])))

\* a finished DFA with a state in which two rules accept and the winner is
\* not rule 0, a state in which only a later rule accepts, and a state in
\* which none does
C20_Witness ==
    /\ pc = "ready"
    /\ \E id \in DOMAIN dfa.states :
          /\ Cardinality(AcceptingRules(dfa.states[id])) >= 2
          /\ dfa.states[id].rule_index # Some(0)
    /\ \E id \in DOMAIN dfa.states : AcceptingRules(dfa.states[id]) = {}

\* C21 (state uniqueness): at every point of the subset construction and
\* in the finished DFA, no two distinct DFA state ids carry identical
\* NFA-membership maps.
C21_StateUniqueness ==
    \A id1, id2 \in DOMAIN dfa.states :
        dfa.states[id1].nfa_states = dfa.states[id2].nfa_states => id1 = id2

\* a DFA of several states in which a membership map was met again: two
\* transitions from different states lead to the same state other than
\* the start state
C21_Witness ==
    /\ Cardinality(DOMAIN dfa.states) >= 3
    /\ \E k1, k2 \in DOMAIN dfa.transitions :
          /\ k1[1] # k2[1]
          /\ dfa.transitions[k1] = dfa.transitions[k2]
          /\ dfa.transitions[k1] # dfa.start_state

\* the characters of the alphabet 0x20..0x7E
AlphabetChars == {Chr(b) : b \in 32..126}

\* epsilon_closure(move(set_i, c)) for rule i of the DFA state
StepSet(state, i, c) ==
    epsilon_closure(nfas[i + 1].nfa,
        move_on_char(nfas[i + 1].nfa, Recorded(state, i), c))

\* the rules of the DFA state whose set has a non-empty successor on c
LiveRules(state, c) ==
    {i \in 0..(Len(nfas) - 1) : StepSet(state, i, c) # {}}

\* C22 (one-step transition): in the finished DFA, for every state D and
\* every character c of the alphabet, the transition (D, c) is defined iff
\* epsilon_closure(move(set_i, c)) is non-empty for at least one rule i of
\* D, and when defined the target's membership map holds exactly those
\* non-empty sets; and at no time does a DFA state's map contain an entry
\* whose set is empty.
C22_OneStepTransition ==
    /\ \A id \in DOMAIN dfa.states :
          \A i \in DOMAIN dfa.states[id].nfa_states :
              dfa.states[id].nfa_states[i] # {}
    /\ pc = "ready" =>
          \A id \in DOMAIN dfa.states : \A c \in AlphabetChars :
              LET D == dfa.states[id]
              IN  /\ (<<id, c>> \in DOMAIN dfa.transitions) = (LiveRules(D, c) # {})
                  /\ <<id, c>> \in DOMAIN dfa.transitions =>
                        dfa.states[dfa.transitions[<<id, c>>]].nfa_states =
                            [i \in LiveRules(D, c) |-> StepSet(D, i, c)]

\* a finished DFA with a state that has a transition on one character and
\* none on another, the target recording fewer rules than the source
C22_Witness ==
    /\ pc = "ready"
    /\ \E id \in DOMAIN dfa.states : \E c1, c2 \in {"a", "b"} :
          /\ <<id, c1>> \in DOMAIN dfa.transitions
          /\ <<id, c2>> \notin DOMAIN dfa.transitions
          /\ Cardinality(DOMAIN dfa.states[dfa.transitions[<<id, c1>>]].nfa_states)
                < Cardinality(DOMAIN dfa.states[id].nfa_states)

\* the worklist loop of from_nfas is running / has ended
InWorklistLoop == pc = "dfa_loop"
WorklistLoopEnded == pc = "dfa_loop" /\ Len(worklist) = 0

\* the transitions of the DFA state id for all 95 characters of the
\* alphabet have been computed
TransitionsComputed(id) ==
    \A c \in AlphabetChars :
        LiveRules(dfa.states[id], c) # {} => <<id, c>> \in DOMAIN dfa.transitions

\* C23 (construction termination): the worklist loop of the subset
\* construction terminates; when it has, every DFA state created is in
\* processed and its transitions for all 95 alphabet characters have been
\* computed; and a state is processed once: an iteration that processes
\* adds exactly one state that was not processed before and computes its
\* transitions, and no other iteration adds a state or a transition.
C23_ConstructionTerminates ==
    /\ InWorklistLoop ~> WorklistLoopEnded
    /\ [](WorklistLoopEnded =>
            /\ processed = DOMAIN dfa.states
            /\ \A id \in DOMAIN dfa.states : TransitionsComputed(id))
    /\ [][InWorklistLoop /\ dfa' # dfa =>
            \E id \in DOMAIN dfa.states \ processed :
                /\ processed' = processed \cup {id}
                /\ DOMAIN dfa'.transitions \ DOMAIN dfa.transitions \subseteq
                      {<<id, c>> : c \in AlphabetChars}]_vars
    /\ [][InWorklistLoop /\ processed' # processed =>
            Cardinality(processed') = Cardinality(processed) + 1]_vars

\* the loop has ended on a DFA of several states, one of which was pushed
\* again after it had been processed
C23_Witness ==
    /\ WorklistLoopEnded
    /\ Cardinality(processed) >= 3
    /\ \E k \in DOMAIN dfa.transitions : dfa.transitions[k] = k[1]

-----------------------------------------------------------------------------
(* Properties of the NFAs.                                                 *)

\* the strings the NFAs are run on: the characters of the inputs and of
\* the enumerated classes
LanguageStrings == StringsOver(InputChars \cup ClassChars, MaxInputLen)

\* the NFA accepts s
Accepts(nfa, s) == NfaAfter(nfa, s) \cap nfa.accept_states # {}

\* the NFAs of the rules have been built by from_regex
NFAsBuilt == pc = "dfa_start"

\* C24 (Thompson construction correctness): for every regex AST, the NFA
\* built by from_regex accepts exactly the strings of the AST's language.
C24_ThompsonCorrect ==
    NFAsBuilt =>
        \A k \in 1..Len(nfas) : \A s \in LanguageStrings :
            Accepts(nfas[k].nfa, s) = RuleMatches(k, s)

\* NFAs have been built for a rule list with an alternation whose operand
\* is a repetition, and with an optional group
C24_Witness ==
    /\ NFAsBuilt
    /\ \E k \in 1..Len(nfas) :
          LET regex == parse_regex(spec.rules[k].regex).value
          IN  /\ regex.type = "Alternation"
              /\ regex.right.type \in {"Kleene", "Plus"}
              /\ Accepts(nfas[k].nfa, "bb")
              /\ ~Accepts(nfas[k].nfa, "ba")
    /\ \E k \in 1..Len(nfas) :
          LET regex == parse_regex(spec.rules[k].regex).value
          IN  regex.type = "Concatenation" /\ regex.left.type = "Optional"

\* T is closed under the epsilon transitions of nfa
EpsilonClosed(nfa, T) ==
    \A t \in nfa.transitions : (t[1] \in T /\ t[2] = Epsilon) => t[3] \in T

\* the least set that contains T and is closed under the epsilon
\* transitions of nfa: T with the epsilon successors added until none is new
RECURSIVE LeastClosed(_, _)
LeastClosed(nfa, T) ==
    IF EpsilonClosed(nfa, T) THEN T
    ELSE LeastClosed(nfa,
            T \cup {t[3] : t \in {u \in nfa.transitions : u[1] \in T /\ u[2] = Epsilon}})

\* there is a cycle of epsilon transitions through the state q of nfa
OnEpsilonCycle(nfa, q) ==
    \E t \in nfa.transitions :
        t[1] = q /\ t[2] = Epsilon /\ q \in LeastClosed(nfa, {t[3]})

\* C25 (epsilon closure): for every NFA and every set S of its states,
\* epsilon_closure(S) contains S, is the least superset of S closed under
\* epsilon transitions, and is its own closure; it is computed also when
\* the epsilon edges form cycles; and move(S, c) is exactly the union of
\* the c-targets of the states of S, with no closure applied.
C25_EpsilonClosure ==
    NFAsBuilt =>
        \A k \in 1..Len(nfas) : \A S \in SUBSET nfas[k].nfa.states :
            LET nfa == nfas[k].nfa
                closure == epsilon_closure(nfa, S)
            IN  /\ S \subseteq closure
                /\ EpsilonClosed(nfa, closure)
                /\ closure = LeastClosed(nfa, S)
                /\ epsilon_closure(nfa, closure) = closure
                /\ \A c \in InputChars \cup ClassChars :
                      move_on_char(nfa, S, c) =
                          {t[3] : t \in {u \in nfa.transitions : u[1] \in S /\ u[2] = c}}

\* NFAs have been built, one of them with a cycle of epsilon transitions
\* and a state whose closure is reached in more than one step
C25_Witness ==
    /\ NFAsBuilt
    /\ \E k \in 1..Len(nfas) : \E q \in nfas[k].nfa.states :
          /\ OnEpsilonCycle(nfas[k].nfa, q)
          /\ epsilon_closure(nfas[k].nfa, {nfas[k].nfa.start_state}) #
                {nfas[k].nfa.start_state} \cup
                    targets(nfas[k].nfa, nfas[k].nfa.start_state, Epsilon)

-----------------------------------------------------------------------------
(* Termination and coverage of the scan loop.                              *)

\* the segment of the input the iteration st consumed
Segment(st) == Slice(input, st.pos, st.after.pos)

\* the segments of the first n iterations, concatenated in order
RECURSIVE Consumed(_)
Consumed(n) == IF n = 0 THEN "" ELSE Consumed(n - 1) \o Segment(steps[n])

\* the scanner is running / has written its EOF line
Scanning == pc = "scan"
ScanEnded == pc = "done"

\* C26 (scanner termination and coverage): the scan loop terminates; pos
\* strictly increases in every iteration and never exceeds the input
\* length; every iteration consumes a matched lexeme or a single unmatched
\* character; and the segments consumed, concatenated in order, are the
\* input read so far, and the whole input when the loop has ended.
C26_ScanTerminatesAndCovers ==
    /\ Scanning ~> ScanEnded
    /\ [][(Scanning /\ Scanning') => pos' > pos]_vars
    /\ []((Scanning \/ ScanEnded) =>
            /\ pos <= Len(input)
            /\ Consumed(Len(steps)) = Slice(input, 0, pos)
            /\ ScanEnded => Consumed(Len(steps)) = input
            /\ \A i \in 1..Len(steps) :
                  Len(Segment(steps[i])) =
                      IF steps[i].length > 0 THEN steps[i].length ELSE 1)

\* a scan has ended after iterations of both kinds: one consumed a lexeme
\* of several characters, another a single unmatched character
C26_Witness ==
    /\ ScanEnded
    /\ \E i, j \in 1..Len(steps) :
          /\ steps[i].length > 1
          /\ steps[j].length = 0

-----------------------------------------------------------------------------
(* The emitted scanner and DFA::simulate.                                  *)

\* the decisions of the iterations of the emitted scanner so far
ScannerDecisions ==
    [i \in 1..Len(steps) |-> <<steps[i].pos, steps[i].length, steps[i].rule>>]

\* what the emitted scanner matched: the lexemes of the iterations with a
\* positive length, with their coordinates and rules, and the EOF marker
RECURSIVE ScannerMatches(_)
ScannerMatches(n) ==
    IF n = 0 THEN << >>
    ELSE IF steps[n].length > 0
    THEN Append(ScannerMatches(n - 1),
                <<Lexeme(steps[n]), steps[n].line, steps[n].column, steps[n].rule>>)
    ELSE ScannerMatches(n - 1)

\* C27 (generated scanner equals in-process scanner): for the DFA built and
\* every input, the emitted table-driven scanner makes the same sequence of
\* (start position, length, winning rule) decisions as DFA::simulate on
\* that DFA, and matches the same lexemes at the same coordinates.
C27_ScannerEqualsSimulate ==
    ScanEnded =>
        /\ ScannerDecisions = simulate(dfa, input).decisions
        /\ Append(ScannerMatches(Len(steps)), <<"", line, column, None>>) =
              simulate(dfa, input).tokens

\* a scan has ended in which a rule other than rule 0 won and a character
\* was left unmatched, by a scanner with a transition on a character the
\* emitted source writes as an escape
C27_Witness ==
    /\ ScanEnded
    /\ \E i, j \in 1..Len(steps) :
          /\ steps[i].length > 0 /\ steps[i].rule # Some(0)
          /\ steps[j].length = 0
    /\ \E k \in DOMAIN dfa.transitions : k[2] \in {"\\", "'", "\""}

-----------------------------------------------------------------------------
(* Well-formedness of the DFA.                                             *)

\* the states of d that the transitions of d lead to from the states of T
RECURSIVE ReachableFrom(_, _)
ReachableFrom(d, T) ==
    LET more == T \cup {d.transitions[k] : k \in {j \in DOMAIN d.transitions : j[1] \in T}}
    IN  IF more = T THEN T ELSE ReachableFrom(d, more)

\* C28 (DFA well-formedness): in the DFA, while it is built and after, the
\* source and the target of every transition are existing states, every
\* state is reachable from the start state, a state is accepting iff it
\* has a winning rule, and every winning rule index is smaller than the
\* number of rules; so the rule index of every accepting state of the
\* emitted scanner, and of every iteration, is an index of its rules.
C28_WellFormed ==
    /\ \A k \in DOMAIN dfa.transitions :
          k[1] \in DOMAIN dfa.states /\ dfa.transitions[k] \in DOMAIN dfa.states
    /\ DOMAIN dfa.states # {} =>
          /\ dfa.start_state \in DOMAIN dfa.states
          /\ ReachableFrom(dfa, {dfa.start_state}) = DOMAIN dfa.states
    /\ \A id \in DOMAIN dfa.states :
          /\ dfa.states[id].is_accepting = (dfa.states[id].rule_index # None)
          /\ dfa.states[id].rule_index # None =>
                dfa.states[id].rule_index[1] \in 0..(Len(spec.rules) - 1)
    /\ \A id \in DOMAIN lexer.accepting_states :
          lexer.accepting_states[id] + 1 \in DOMAIN lexer.rules
    /\ \A i \in 1..Len(steps) :
          steps[i].rule # None => steps[i].rule[1] + 1 \in DOMAIN lexer.rules

\* a scanner was emitted for a DFA of several states, accepting and not,
\* in which the last rule of several wins somewhere, and has looked up the
\* rule of a match
C28_Witness ==
    /\ Len(spec.rules) >= 3
    /\ Cardinality(DOMAIN dfa.states) >= 3
    /\ \E id \in DOMAIN dfa.states : ~dfa.states[id].is_accepting
    /\ \E id \in DOMAIN dfa.states :
          dfa.states[id].rule_index = Some(Len(spec.rules) - 1)
    /\ Stepped /\ LastStep.length > 0 /\ LastStep.rule # None

-----------------------------------------------------------------------------
(* The boundary of a compiled node.                                        *)

\* the nodes of a regex AST
RECURSIVE Nodes(_)
Nodes(regex) ==
    {regex} \cup
    CASE regex.type \in {"Concatenation", "Alternation"} ->
            Nodes(regex.left) \cup Nodes(regex.right)
      [] regex.type \in {"Kleene", "Plus", "Optional"} -> Nodes(regex.inner)
      [] OTHER -> {}

\* an NFA in which build_nfa is called between in and out: the two states
\* exist, as do the transitions `present`
Context(in, out, present) ==
    [NFA_new EXCEPT !.states = {in, out}, !.next_state_id = 2,
                    !.transitions = present]

\* the transitions a call of build_nfa for the node between in and out adds
Added(node, in, out, present) ==
    build_nfa(Context(in, out, present), node, in, out).transitions \ present

\* no transition the call adds enters in or leaves out
BoundaryKept(node, in, out, present) ==
    \A t \in Added(node, in, out, present) : t[3] # in /\ t[1] # out

\* C29 (NFA boundary invariant): for every AST node compiled by build_nfa
\* between states in and out, no transition added by that call enters in
\* and none leaves out, whether or not the two states already carry the
\* transitions of a sibling; and in the finished NFA the start state has no
\* incoming transition, the single accept state has no outgoing
\* transition, the start state is in the state set, and every source and
\* target of a transition is in the state set.
C29_Boundary ==
    NFAsBuilt =>
        \A k \in 1..Len(nfas) :
            LET nfa == nfas[k].nfa
            IN  /\ \A node \in Nodes(parse_regex(spec.rules[k].regex).value) :
                      /\ BoundaryKept(node, 0, 1, {})
                      /\ BoundaryKept(node, 1, 0, {<<1, "b", 0>>, <<1, Epsilon, 0>>})
                /\ \A t \in nfa.transitions :
                      /\ t[3] # nfa.start_state
                      /\ t[1] \notin nfa.accept_states
                      /\ t[1] \in nfa.states /\ t[3] \in nfa.states
                /\ Cardinality(nfa.accept_states) = 1
                /\ nfa.start_state \in nfa.states
                /\ nfa.accept_states \subseteq nfa.states

\* NFAs have been built for rules with an alternation whose operand is a
\* loop, and with an optional group or repetition of an operand that
\* shares its states again
C29_Witness ==
    /\ NFAsBuilt
    /\ \E k \in 1..Len(nfas) :
          \E node \in Nodes(parse_regex(spec.rules[k].regex).value) :
              /\ node.type = "Alternation"
              /\ node.right.type \in {"Kleene", "Plus"}
    /\ \E k \in 1..Len(nfas) :
          \E node \in Nodes(parse_regex(spec.rules[k].regex).value) :
              /\ node.type \in {"Optional", "Plus"}
              /\ node.inner.type \in {"Kleene", "Optional", "Alternation"}

-----------------------------------------------------------------------------
(* Characters between the brackets of a class.                             *)

\* the text opens a class that a `]` closes: index of the first item, of
\* the first `]` from there on, and the characters between them
OpensClass(t) == Len(t) >= 2 /\ At(t, 0) = "["
FirstItem(t) == IF At(t, 1) = "^" THEN 2 ELSE 1
ClosedAt(t) == {i \in FirstItem(t)..(Len(t) - 1) : At(t, i) = "]"}
ClassBody(t) == Slice(t, FirstItem(t), Least(ClosedAt(t)))

\* the leaf a regex AST starts with
RECURSIVE LeftmostLeaf(_)
LeftmostLeaf(regex) ==
    CASE regex.type \in {"Concatenation", "Alternation"} -> LeftmostLeaf(regex.left)
      [] regex.type \in {"Kleene", "Plus", "Optional"} -> LeftmostLeaf(regex.inner)
      [] OTHER -> regex

\* the class the parsed text starts with
ParsedClass == LeftmostLeaf(RegexResult.value)

\* C30 (no escapes inside a class): for a parsed text that opens a class, the
\* class is made of the characters between `[` (after an optional `^`) and
\* the first `]`, each a literal member or a range endpoint: without a `-`
\* among them the members are exactly these characters in order, a
\* backslash and the character after it included; with a `-` every member
\* lies between two of them; and the first `]` ends the class, also
\* directly after `[` or `[^`, where the class is empty.
C30_NoEscapesInClass ==
    (RegexParsed /\ NFAsBuilt /\ OpensClass(RegexText) /\ ClosedAt(RegexText) # {}
        /\ RegexResult.kind = "Ok") =>
        LET body == ClassBody(RegexText)
            members == ParsedClass.chars
        IN  /\ ParsedClass.type =
                  IF At(RegexText, 1) = "^" THEN "NegatedCharClass" ELSE "CharClass"
            /\ (\A i \in 0..(Len(body) - 1) : At(body, i) # "-") =>
                  members = [i \in 1..Len(body) |-> At(body, i - 1)]
            /\ \A m \in 1..Len(members) :
                  \E i, j \in 0..(Len(body) - 1) :
                      /\ Ord(At(body, i)) <= Ord(members[m])
                      /\ Ord(members[m]) <= Ord(At(body, j))

\* the class text of the backslash, t, backslash, n has been parsed
C30_Witness ==
    /\ RegexParsed
    /\ NFAsBuilt
    /\ RegexText = "[\\t\\n]"
    /\ RegexResult.kind = "Ok"
    /\ ParsedClass.chars = <<"\\", "t", "\\", "n">>

====
